---- MODULE Spec2Model ----
(***************************************************************************)
(* A model of the sysfs PCI / AER readers of asama-ai/procfs:              *)
(*   sysfs/pci_device.go              location codec, device scan          *)
(*   sysfs/pci_device_aer.go          per-device AER counter parser        *)
(*   sysfs/pci_device_rootport_aer.go root-port aggregation                *)
(*   sysfs/net_class_aer.go           network-interface bridge             *)
(*                                                                         *)
(* Text is a sequence of one-character strings, so that splitting,         *)
(* trimming, formatting and numeral parsing are computed character by      *)
(* character as the Go code (and the strconv/strings/fmt routines it       *)
(* calls) computes them.                                                   *)
(***************************************************************************)
EXTENDS Integers, Sequences, FiniteSets, TLC

\* ------------------------------------------------------------------ text

RECURSIVE IndexOf(_, _, _)
\* first index >= i of character c in s, 0 when there is none
IndexOf(s, c, i) ==
    IF i > Len(s) THEN 0
    ELSE IF s[i] = c THEN i
    ELSE IndexOf(s, c, i + 1)

Tail0(s, i) == IF i > Len(s) THEN <<>> ELSE SubSeq(s, i, Len(s))

RECURSIVE Split(_, _)
\* strings.Split(s, sep) for a one-character separator
Split(s, sep) ==
    LET i == IndexOf(s, sep, 1) IN
    IF i = 0 THEN <<s>>
    ELSE <<SubSeq(s, 1, i - 1)>> \o Split(Tail0(s, i + 1), sep)

\* strings.SplitAfterN(s, sep, 2): cut after the first separator
SplitAfterN2(s, sep) ==
    LET i == IndexOf(s, sep, 1) IN
    IF i = 0 THEN <<s>>
    ELSE <<SubSeq(s, 1, i), Tail0(s, i + 1)>>

HasPrefix(s, p) == Len(s) >= Len(p) /\ SubSeq(s, 1, Len(p)) = p

WhiteSpace == {" ", "\t", "\n", "\r"}

RECURSIVE TrimLeft(_)
TrimLeft(s) ==
    IF s # <<>> /\ s[1] \in WhiteSpace THEN TrimLeft(Tail(s)) ELSE s

RECURSIVE TrimRight(_)
TrimRight(s) ==
    IF s # <<>> /\ s[Len(s)] \in WhiteSpace
    THEN TrimRight(SubSeq(s, 1, Len(s) - 1)) ELSE s

\* strings.TrimSpace
TrimSpace(s) == TrimRight(TrimLeft(s))

RECURSIVE Fields(_)
\* strings.Fields: the maximal runs of non-white-space characters
Fields(s) ==
    LET t == TrimLeft(s) IN
    IF t = <<>> THEN <<>>
    ELSE LET RECURSIVE EndOf(_)
             EndOf(i) == IF i > Len(t) \/ t[i] \in WhiteSpace THEN i
                         ELSE EndOf(i + 1)
             e == EndOf(1)
         IN <<SubSeq(t, 1, e - 1)>> \o Fields(Tail0(t, e))

RECURSIVE Join(_, _)
\* strings.Join(parts, sep) where sep is a (possibly empty) text
Join(parts, sep) ==
    IF parts = <<>> THEN <<>>
    ELSE IF Len(parts) = 1 THEN parts[1]
    ELSE parts[1] \o sep \o Join(Tail(parts), sep)

\* ------------------------------------------------------------- numerals

DigitChars == <<"0", "1", "2", "3", "4", "5", "6", "7", "8", "9",
                "a", "b", "c", "d", "e", "f">>
UpperChars == <<"0", "1", "2", "3", "4", "5", "6", "7", "8", "9",
                "A", "B", "C", "D", "E", "F">>

\* the value of a digit character, 99 for a character that is no digit
DigitVal(c) ==
    IF \E i \in 1..16 : DigitChars[i] = c
    THEN (CHOOSE i \in 1..16 : DigitChars[i] = c) - 1
    ELSE IF \E i \in 1..16 : UpperChars[i] = c
    THEN (CHOOSE i \in 1..16 : UpperChars[i] = c) - 1
    ELSE 99

IsNumeral(s, base) ==
    s # <<>> /\ \A i \in 1..Len(s) : DigitVal(s[i]) < base

RECURSIVE StripZeros(_)
StripZeros(s) ==
    IF Len(s) > 1 /\ s[1] = "0" THEN StripZeros(Tail(s)) ELSE s

RECURSIVE LexLeq(_, _)
LexLeq(a, b) ==
    IF a = <<>> THEN TRUE
    ELSE IF DigitVal(a[1]) # DigitVal(b[1]) THEN DigitVal(a[1]) < DigitVal(b[1])
    ELSE LexLeq(Tail(a), Tail(b))

\* a <= b for two numerals of the same base, compared digit by digit so that
\* no number wider than the model checker's integers is ever computed
NumeralLeq(a, b) ==
    LET x == StripZeros(a)
        y == StripZeros(b)
    IN Len(x) < Len(y) \/ (Len(x) = Len(y) /\ LexLeq(x, y))

RECURSIVE NumeralValue(_, _, _)
NumeralValue(s, base, acc) ==
    IF s = <<>> THEN acc
    ELSE NumeralValue(Tail(s), base, acc * base + DigitVal(s[1]))

RECURSIVE Ones(_, _)
Ones(n, c) == IF n = 0 THEN <<>> ELSE <<c>> \o Ones(n - 1, c)

\* the largest numeral ParseUint accepts: 2^bits - 1 written in the base
MaxNumeral(base, bits) ==
    CASE base = 16 /\ bits = 31 -> <<"7">> \o Ones(7, "f")
      [] base = 16 /\ bits = 32 -> Ones(8, "f")
      [] base = 16 /\ bits = 64 -> Ones(16, "f")
      [] base = 10 /\ bits = 31 -> <<"2","1","4","7","4","8","3","6","4","7">>
      [] base = 10 /\ bits = 32 -> <<"4","2","9","4","9","6","7","2","9","5">>
      [] base = 10 /\ bits = 63 ->
           <<"9","2","2","3","3","7","2","0","3","6","8","5","4","7","7","5","8","0","7">>
      [] base = 10 /\ bits = 64 ->
           <<"1","8","4","4","6","7","4","4","0","7","3","7","0","9","5","5","1","6","1","5">>
      [] base = 8 /\ bits = 31 -> <<"1">> \o Ones(10, "7")
      [] base = 8 /\ bits = 32 -> <<"3">> \o Ones(10, "7")
      [] base = 2 /\ bits = 31 -> Ones(31, "1")
      [] base = 2 /\ bits = 32 -> Ones(32, "1")

\* 2^(bits): the numeral one above MaxNumeral, the magnitude of the least
\* signed value of bits+1 bits
PowNumeral(base, bits) ==
    CASE base = 16 /\ bits = 31 -> <<"8">> \o Ones(7, "0")
      [] base = 10 /\ bits = 31 -> <<"2","1","4","7","4","8","3","6","4","8">>
      [] base = 10 /\ bits = 63 ->
           <<"9","2","2","3","3","7","2","0","3","6","8","5","4","7","7","5","8","0","8">>
      [] base = 8 /\ bits = 31 -> <<"2">> \o Ones(10, "0")
      [] base = 2 /\ bits = 31 -> <<"1">> \o Ones(31, "0")

\* an error value: its message, the error at the bottom of its chain, and
\* whether fmt.Errorf("...%w") wrapped it.  errors.Is follows the chain;
\* os.IsNotExist does not look through a fmt.Errorf wrapper.
NoErr == [msg |-> "nil", cause |-> "nil", wrapped |-> FALSE]
NewError(msg) == [msg |-> msg, cause |-> msg, wrapped |-> FALSE]
Wrap(msg, e) == [msg |-> msg, cause |-> e.cause, wrapped |-> TRUE]
errorsIs(e, target) == e.cause = target
osIsNotExist(e) == ~e.wrapped /\ e.cause = "ENOENT"

Ok(v) == [err |-> NoErr, val |-> v]
Fail(msg) == [err |-> NewError(msg), val |-> 0]
FailWrap(msg, e) == [err |-> Wrap(msg, e), val |-> 0]

\* "x := v; rest": v is evaluated once and rest sees its value as x
Bind(v, rest(_)) == CHOOSE r \in { rest(x) : x \in {v} } : TRUE

\* strconv.ParseUint(s, base, bitSize) for base 2, 8, 10 or 16: no sign, no
\* prefix, no underscore; ErrSyntax on an empty text or a foreign character,
\* ErrRange above 2^bitSize - 1
ParseUint(s, base, bitSize) ==
    IF ~IsNumeral(s, base) THEN Fail("ErrSyntax")
    ELSE IF ~NumeralLeq(s, MaxNumeral(base, bitSize)) THEN Fail("ErrRange")
    ELSE Ok(NumeralValue(s, base, 0))

\* the base and the digits of a base-0 numeral: 0x, 0b, 0o or a leading 0
BasePrefix(s) ==
    IF Len(s) >= 2 /\ s[1] = "0" /\ s[2] \in {"x", "X"} THEN <<16, Tail0(s, 3)>>
    ELSE IF Len(s) >= 2 /\ s[1] = "0" /\ s[2] \in {"b", "B"} THEN <<2, Tail0(s, 3)>>
    ELSE IF Len(s) >= 2 /\ s[1] = "0" /\ s[2] \in {"o", "O"} THEN <<8, Tail0(s, 3)>>
    ELSE IF Len(s) >= 2 /\ s[1] = "0" THEN <<8, Tail0(s, 2)>>
    ELSE <<10, s>>

\* strconv.ParseInt(s, base, bitSize): an optional sign, then the magnitude;
\* base 0 takes the base from the prefix.  The value is in
\* -2^(bitSize-1) .. 2^(bitSize-1) - 1 or the result is ErrRange.
ParseInt(s, base, bitSize) ==
    IF s = <<>> THEN Fail("ErrSyntax")
    ELSE
      LET neg  == s[1] = "-"
          body == IF s[1] \in {"+", "-"} THEN Tail(s) ELSE s
          bp   == IF base = 0 THEN BasePrefix(body) ELSE <<base, body>>
          b    == bp[1]
          digs == bp[2]
      IN IF ~IsNumeral(digs, b) THEN Fail("ErrSyntax")
         ELSE IF ~neg
           THEN IF NumeralLeq(digs, MaxNumeral(b, bitSize - 1))
                THEN Ok(NumeralValue(digs, b, 0)) ELSE Fail("ErrRange")
         ELSE IF NumeralLeq(digs, MaxNumeral(b, bitSize - 1))
                THEN Ok(0 - NumeralValue(digs, b, 0))
         ELSE IF StripZeros(digs) = PowNumeral(b, bitSize - 1)
                THEN Ok(0 - NumeralValue(MaxNumeral(b, bitSize - 1), b, 0) - 1)
         ELSE Fail("ErrRange")

RECURSIVE HexDigits(_)
\* the lower-case base-16 numeral of n >= 0
HexDigits(n) ==
    IF n < 16 THEN <<DigitChars[n + 1]>>
    ELSE HexDigits(n \div 16) \o <<DigitChars[(n % 16) + 1]>>

RECURSIVE DecDigits(_)
\* the base-10 numeral of n >= 0
DecDigits(n) ==
    IF n < 10 THEN <<DigitChars[n + 1]>>
    ELSE DecDigits(n \div 10) \o <<DigitChars[(n % 10) + 1]>>

\* fmt's %0<width>x of an int: zero padding to the width, the sign counted
\* in it
FmtHex(n, width) ==
    LET mag  == HexDigits(IF n < 0 THEN 0 - n ELSE n)
        sign == IF n < 0 THEN <<"-">> ELSE <<>>
        pad  == width - Len(mag) - Len(sign)
    IN sign \o Ones(IF pad > 0 THEN pad ELSE 0, "0") \o mag

\* ------------------------------------------------- PciDeviceLocation codec

PciDeviceLocation(seg, bus, dev, fn) ==
    [Segment |-> seg, Bus |-> bus, Device |-> dev, Function |-> fn]

NoLocation == PciDeviceLocation(0, 0, 0, 0)

\* PciDeviceLocation.String: "%04x:%02x:%02x:%x"
String(pdl) ==
    FmtHex(pdl.Segment, 4) \o <<":">> \o FmtHex(pdl.Bus, 2) \o <<":">>
      \o FmtHex(pdl.Device, 2) \o <<":">> \o FmtHex(pdl.Function, 1)

\* the directory name PciDevice.AerCounters builds: "%04x:%02x:%02x.%x"
DeviceName(pdl) ==
    FmtHex(pdl.Segment, 4) \o <<":">> \o FmtHex(pdl.Bus, 2) \o <<":">>
      \o FmtHex(pdl.Device, 2) \o <<".">> \o FmtHex(pdl.Function, 1)

parsePciDeviceLocation(loc) ==
    LET locs3 == Split(loc, ":") IN
    IF Len(locs3) # 3 THEN Fail("invalid location")
    ELSE
      LET locs == SubSeq(locs3, 1, 2) \o Split(locs3[3], ".") IN
      IF Len(locs) # 4 THEN Fail("invalid location")
      ELSE
        LET seg      == ParseInt(locs[1], 16, 32)
            bus      == ParseInt(locs[2], 16, 32)
            device   == ParseInt(locs[3], 16, 32)
            function == ParseInt(locs[4], 16, 32)
        IN IF seg.err # NoErr THEN FailWrap("invalid segment", seg.err)
           ELSE IF bus.err # NoErr THEN FailWrap("invalid bus", bus.err)
           ELSE IF device.err # NoErr THEN FailWrap("invalid device", device.err)
           ELSE IF function.err # NoErr THEN FailWrap("invalid function", function.err)
           ELSE Ok(PciDeviceLocation(seg.val, bus.val, device.val, function.val))

\* ------------------------------------------------------ AER counter names

\* the text of every counter name the model writes into a counter file
NameText ==
    [RxErr |-> <<"R", "x", "E", "r", "r">>,
     BadTLP |-> <<"B", "a", "d", "T", "L", "P">>,
     BadDLLP |-> <<"B", "a", "d", "D", "L", "L", "P">>,
     Rollover |-> <<"R", "o", "l", "l", "o", "v", "e", "r">>,
     Timeout |-> <<"T", "i", "m", "e", "o", "u", "t">>,
     NonFatalErr |-> <<"N", "o", "n", "F", "a", "t", "a", "l", "E", "r", "r">>,
     CorrIntErr |-> <<"C", "o", "r", "r", "I", "n", "t", "E", "r", "r">>,
     HeaderOF |-> <<"H", "e", "a", "d", "e", "r", "O", "F">>,
     Undefined |-> <<"U", "n", "d", "e", "f", "i", "n", "e", "d">>,
     DLP |-> <<"D", "L", "P">>,
     SDES |-> <<"S", "D", "E", "S">>,
     TLP |-> <<"T", "L", "P">>,
     FCP |-> <<"F", "C", "P">>,
     CmpltTO |-> <<"C", "m", "p", "l", "t", "T", "O">>,
     CmpltAbrt |-> <<"C", "m", "p", "l", "t", "A", "b", "r", "t">>,
     UnxCmplt |-> <<"U", "n", "x", "C", "m", "p", "l", "t">>,
     RxOF |-> <<"R", "x", "O", "F">>,
     MalfTLP |-> <<"M", "a", "l", "f", "T", "L", "P">>,
     ECRC |-> <<"E", "C", "R", "C">>,
     UnsupReq |-> <<"U", "n", "s", "u", "p", "R", "e", "q">>,
     ACSViol |-> <<"A", "C", "S", "V", "i", "o", "l">>,
     UncorrIntErr |-> <<"U", "n", "c", "o", "r", "r", "I", "n", "t", "E", "r", "r">>,
     BlockedTLP |-> <<"B", "l", "o", "c", "k", "e", "d", "T", "L", "P">>,
     AtomicOpBlocked |-> <<"A", "t", "o", "m", "i", "c", "O", "p", "B", "l", "o", "c", "k", "e", "d">>,
     TLPBlockedErr |-> <<"T", "L", "P", "B", "l", "o", "c", "k", "e", "d", "E", "r", "r">>,
     PoisonTLPBlocked |-> <<"P", "o", "i", "s", "o", "n", "T", "L", "P", "B", "l", "o", "c", "k", "e", "d">>,
     FooBar |-> <<"F", "o", "o", "B", "a", "r">>,
     TOTAL_ERR_COR |-> <<"T", "O", "T", "A", "L", "_", "E", "R", "R", "_", "C", "O", "R">>]

CorrectableNames ==
    {"RxErr", "BadTLP", "BadDLLP", "Rollover", "Timeout", "NonFatalErr", "CorrIntErr", "HeaderOF"}

UncorrectableNames ==
    {"Undefined", "DLP", "SDES", "TLP", "FCP", "CmpltTO",
     "CmpltAbrt", "UnxCmplt", "RxOF", "MalfTLP", "ECRC", "UnsupReq",
     "ACSViol", "UncorrIntErr", "BlockedTLP", "AtomicOpBlocked", "TLPBlockedErr", "PoisonTLPBlocked"}

\* CorrectableAerCounters{} and UncorrectableAerCounters{}: every field zero
ZeroCorrectable == [n \in CorrectableNames |-> 0]
ZeroUncorrectable == [n \in UncorrectableNames |-> 0]

\* the switch of parseCorrectableAerCounters with two arms exchanged
CorrectableSwitch_Swapped(counters, counterName, value) ==
    CASE counterName = NameText.RxErr -> [counters EXCEPT !.BadTLP = value]
      [] counterName = NameText.BadTLP -> [counters EXCEPT !.RxErr = value]
      [] counterName = NameText.BadDLLP -> [counters EXCEPT !.BadDLLP = value]
      [] counterName = NameText.Rollover -> [counters EXCEPT !.Rollover = value]
      [] counterName = NameText.Timeout -> [counters EXCEPT !.Timeout = value]
      [] counterName = NameText.NonFatalErr -> [counters EXCEPT !.NonFatalErr = value]
      [] counterName = NameText.CorrIntErr -> [counters EXCEPT !.CorrIntErr = value]
      [] counterName = NameText.HeaderOF -> [counters EXCEPT !.HeaderOF = value]
      [] OTHER -> counters

\* the switch on counterName of parseCorrectableAerCounters; default: continue
CorrectableSwitch(counters, counterName, value) ==
    CASE counterName = NameText.RxErr -> [counters EXCEPT !.RxErr = value]
      [] counterName = NameText.BadTLP -> [counters EXCEPT !.BadTLP = value]
      [] counterName = NameText.BadDLLP -> [counters EXCEPT !.BadDLLP = value]
      [] counterName = NameText.Rollover -> [counters EXCEPT !.Rollover = value]
      [] counterName = NameText.Timeout -> [counters EXCEPT !.Timeout = value]
      [] counterName = NameText.NonFatalErr -> [counters EXCEPT !.NonFatalErr = value]
      [] counterName = NameText.CorrIntErr -> [counters EXCEPT !.CorrIntErr = value]
      [] counterName = NameText.HeaderOF -> [counters EXCEPT !.HeaderOF = value]
      [] OTHER -> counters

\* the switch on counterName of parseUncorrectableAerCounters; default: continue
UncorrectableSwitch(counters, counterName, value) ==
    CASE counterName = NameText.Undefined -> [counters EXCEPT !.Undefined = value]
      [] counterName = NameText.DLP -> [counters EXCEPT !.DLP = value]
      [] counterName = NameText.SDES -> [counters EXCEPT !.SDES = value]
      [] counterName = NameText.TLP -> [counters EXCEPT !.TLP = value]
      [] counterName = NameText.FCP -> [counters EXCEPT !.FCP = value]
      [] counterName = NameText.CmpltTO -> [counters EXCEPT !.CmpltTO = value]
      [] counterName = NameText.CmpltAbrt -> [counters EXCEPT !.CmpltAbrt = value]
      [] counterName = NameText.UnxCmplt -> [counters EXCEPT !.UnxCmplt = value]
      [] counterName = NameText.RxOF -> [counters EXCEPT !.RxOF = value]
      [] counterName = NameText.MalfTLP -> [counters EXCEPT !.MalfTLP = value]
      [] counterName = NameText.ECRC -> [counters EXCEPT !.ECRC = value]
      [] counterName = NameText.UnsupReq -> [counters EXCEPT !.UnsupReq = value]
      [] counterName = NameText.ACSViol -> [counters EXCEPT !.ACSViol = value]
      [] counterName = NameText.UncorrIntErr -> [counters EXCEPT !.UncorrIntErr = value]
      [] counterName = NameText.BlockedTLP -> [counters EXCEPT !.BlockedTLP = value]
      [] counterName = NameText.AtomicOpBlocked -> [counters EXCEPT !.AtomicOpBlocked = value]
      [] counterName = NameText.TLPBlockedErr -> [counters EXCEPT !.TLPBlockedErr = value]
      [] counterName = NameText.PoisonTLPBlocked -> [counters EXCEPT !.PoisonTLPBlocked = value]
      [] OTHER -> counters

\* ----------------------------------------------------------------- files

\* A file of the virtual filesystem: st is "ok", "ENOENT" (it does not exist)
\* or "EIO" (it exists and reading it fails); data is its raw text.
File(st, data) == [st |-> st, data |-> data]
NoFile == File("ENOENT", <<>>)

\* A directory handle: its path and the files in it.  A name the directory
\* does not hold reads as ENOENT; any name under a path that is a regular
\* file reads as ENOTDIR.
Lookup(dir, name) ==
    IF dir.notdir THEN File("ENOTDIR", <<>>)
    ELSE IF name \in DOMAIN dir.files THEN dir.files[name] ELSE NoFile

\* util.SysReadFile: the text with the surrounding white space trimmed
SysReadFile(f) ==
    IF f.st = "ok" THEN Ok(TrimSpace(f.data)) ELSE Fail(f.st)

\* util.ReadFileNoStat: the raw text
ReadFileNoStat(f) ==
    IF f.st = "ok" THEN Ok(f.data) ELSE Fail(f.st)

\* os.Stat of a file: only whether it is there
StatFile(f) ==
    IF f.st \in {"ENOENT", "ENOTDIR"} THEN NewError(f.st) ELSE NoErr

\* one read of the log: which file of which directory
ReadOf(dir, name) == <<dir.path, name>>

\* --------------------------------------------- per-device AER (pci_device_aer.go)

\* a pointer: NilPtr, or a pointer to a value (read back as p[1])
NilPtr == <<>>
PtrTo(v) == <<v>>

RECURSIVE CorrectableLines(_, _)
\* the loop of parseCorrectableAerCounters over the lines of the file
CorrectableLines(lines, counters) ==
    IF lines = <<>> THEN [err |-> NoErr, counters |-> counters]
    ELSE IF lines[1] = <<>> THEN CorrectableLines(Tail(lines), counters)
    ELSE
      LET fields == Fields(lines[1]) IN
      IF Len(fields) # 2
      THEN [err |-> NewError("unexpected number of fields"), counters |-> counters]
      ELSE
        LET value == ParseUint(fields[2], 10, 64) IN
        IF value.err # NoErr
        THEN [err |-> Wrap("error parsing value", value.err), counters |-> counters]
        ELSE CorrectableLines(Tail(lines),
                              CorrectableSwitch(counters, fields[1], value.val))

parseCorrectableAerCounters(deviceDir, counters) ==
    LET value == SysReadFile(Lookup(deviceDir, "aer_dev_correctable")) IN
    IF value.err # NoErr
    THEN [err |-> Wrap("failed to read file", value.err), counters |-> counters]
    ELSE CorrectableLines(Split(value.val, "\n"), counters)

RECURSIVE UncorrectableLines_FirstWins(_, _)
\* a faulty loop in which a later line does not overwrite an earlier one for
\* the same name
UncorrectableLines_FirstWins(lines, counters) ==
    IF lines = <<>> THEN [err |-> NoErr, counters |-> counters]
    ELSE IF lines[1] = <<>> THEN UncorrectableLines_FirstWins(Tail(lines), counters)
    ELSE
      LET fields == Fields(lines[1]) IN
      IF Len(fields) # 2
      THEN [err |-> NewError("unexpected number of fields"), counters |-> counters]
      ELSE
        LET value == ParseUint(fields[2], 10, 64) IN
        IF value.err # NoErr
        THEN [err |-> Wrap("error parsing value", value.err), counters |-> counters]
        ELSE LET rest == UncorrectableLines_FirstWins(Tail(lines), counters) IN
             IF rest.err # NoErr THEN rest
             ELSE [err |-> NoErr,
                   counters |-> UncorrectableSwitch(rest.counters, fields[1], value.val)]

RECURSIVE UncorrectableLines(_, _)
\* the loop of parseUncorrectableAerCounters over the lines of the file
UncorrectableLines(lines, counters) ==
    IF lines = <<>> THEN [err |-> NoErr, counters |-> counters]
    ELSE IF lines[1] = <<>> THEN UncorrectableLines(Tail(lines), counters)
    ELSE
      LET fields == Fields(lines[1]) IN
      IF Len(fields) # 2
      THEN [err |-> NewError("unexpected number of fields"), counters |-> counters]
      ELSE
        LET value == ParseUint(fields[2], 10, 64) IN
        IF value.err # NoErr
        THEN [err |-> Wrap("error parsing value", value.err), counters |-> counters]
        ELSE UncorrectableLines(Tail(lines),
                                UncorrectableSwitch(counters, fields[1], value.val))

\* a faulty variant that reads aer_dev_fatal for both uncorrectable tables
AerDevFile_Same(counterType) == "aer_dev_fatal"

\* the file name "aer_dev_" + counterType
AerDevFile(counterType) ==
    IF counterType = "fatal" THEN "aer_dev_fatal" ELSE "aer_dev_nonfatal"

parseUncorrectableAerCounters(deviceDir, counterType, counters) ==
    LET value == ReadFileNoStat(Lookup(deviceDir, AerDevFile(counterType))) IN
    IF value.err # NoErr
    THEN [err |-> Wrap("failed to read file", value.err), counters |-> counters]
    ELSE UncorrectableLines(Split(value.val, "\n"), counters)

\* a faulty variant that reports a missing or blank total as a present 0
RootPortField_Zero(deviceDir, name) ==
    LET value == SysReadFile(Lookup(deviceDir, name)) IN
    IF value.err # NoErr
    THEN IF errorsIs(value.err, "ENOENT") THEN Ok(PtrTo(0))
         ELSE FailWrap("failed to read file", value.err)
    ELSE
      LET valueStr == TrimSpace(value.val) IN
      IF valueStr # <<>>
      THEN LET v == ParseUint(valueStr, 10, 64) IN
           IF v.err # NoErr THEN FailWrap("error parsing", v.err)
           ELSE Ok(PtrTo(v.val))
      ELSE Ok(PtrTo(0))

\* one of the three blocks of parseRootPortAerCounters: the pointer the
\* field is set to, or the error that ends the parse
RootPortField(deviceDir, name) ==
    LET value == SysReadFile(Lookup(deviceDir, name)) IN
    IF value.err # NoErr
    THEN IF errorsIs(value.err, "ENOENT") THEN Ok(NilPtr)
         ELSE FailWrap("failed to read file", value.err)
    ELSE
      LET valueStr == TrimSpace(value.val) IN
      IF valueStr # <<>>
      THEN LET v == ParseUint(valueStr, 10, 64) IN
           IF v.err # NoErr THEN FailWrap("error parsing", v.err)
           ELSE Ok(PtrTo(v.val))
      ELSE Ok(NilPtr)

\* &PciDeviceAerCounters{}
ZeroAerCounters ==
    [Correctable |-> ZeroCorrectable,
     Fatal |-> ZeroUncorrectable,
     NonFatal |-> ZeroUncorrectable,
     RootPortTotalErrCor |-> NilPtr,
     RootPortTotalErrFatal |-> NilPtr,
     RootPortTotalErrNonFatal |-> NilPtr]

\* parseRootPortAerCounters(deviceDir, counters) of pci_device_aer.go: the
\* three files in turn, the first failure returned; reads is what it read
parseRootPortAerCounters(deviceDir, counters) ==
    LET cor      == RootPortField(deviceDir, "aer_rootport_total_err_cor")
        fatal    == RootPortField(deviceDir, "aer_rootport_total_err_fatal")
        nonfatal == RootPortField(deviceDir, "aer_rootport_total_err_nonfatal")
        r1 == <<ReadOf(deviceDir, "aer_rootport_total_err_cor")>>
        r2 == r1 \o <<ReadOf(deviceDir, "aer_rootport_total_err_fatal")>>
        r3 == r2 \o <<ReadOf(deviceDir, "aer_rootport_total_err_nonfatal")>>
    IN IF cor.err # NoErr
       THEN [err |-> cor.err, counters |-> counters, reads |-> r1]
       ELSE IF fatal.err # NoErr
       THEN [err |-> fatal.err, reads |-> r2,
             counters |-> [counters EXCEPT !.RootPortTotalErrCor = cor.val]]
       ELSE IF nonfatal.err # NoErr
       THEN [err |-> nonfatal.err, reads |-> r3,
             counters |-> [counters EXCEPT !.RootPortTotalErrCor = cor.val,
                                           !.RootPortTotalErrFatal = fatal.val]]
       ELSE [err |-> NoErr, reads |-> r3,
             counters |-> [counters EXCEPT !.RootPortTotalErrCor = cor.val,
                                           !.RootPortTotalErrFatal = fatal.val,
                                           !.RootPortTotalErrNonFatal = nonfatal.val]]

\* a nil *PciDeviceAerCounters
NilCounters == NilPtr

\* parseAerCounters(deviceDir): (counters, nil) or (nil, err); reads is the
\* files it read, in order
parseAerCounters(deviceDir) ==
    Bind(<<ReadOf(deviceDir, "aer_dev_correctable"), ReadOf(deviceDir, "aer_dev_fatal"),
           ReadOf(deviceDir, "aer_dev_nonfatal")>>, LAMBDA r :
      Bind(parseCorrectableAerCounters(deviceDir, ZeroCorrectable), LAMBDA c :
        IF c.err # NoErr
        THEN [err |-> c.err, counters |-> NilCounters, reads |-> SubSeq(r, 1, 1)]
        ELSE
          Bind(parseUncorrectableAerCounters(deviceDir, "fatal", ZeroUncorrectable),
               LAMBDA f :
            IF f.err # NoErr
            THEN [err |-> f.err, counters |-> NilCounters, reads |-> SubSeq(r, 1, 2)]
            ELSE
              Bind(parseUncorrectableAerCounters(deviceDir, "nonfatal", ZeroUncorrectable),
                   LAMBDA n :
                IF n.err # NoErr
                THEN [err |-> n.err, counters |-> NilCounters, reads |-> r]
                ELSE
                  Bind(parseRootPortAerCounters(deviceDir,
                         [ZeroAerCounters EXCEPT !.Correctable = c.counters,
                                                 !.Fatal = f.counters,
                                                 !.NonFatal = n.counters]),
                       LAMBDA rp :
                    IF rp.err # NoErr
                    THEN [err |-> rp.err, counters |-> NilCounters,
                          reads |-> r \o rp.reads]
                    ELSE [err |-> NoErr, counters |-> PtrTo(rp.counters),
                          reads |-> r \o rp.reads])))))

\* ------------------------------------------------------------ the sysfs tree

pciDevicesPath == "bus/pci/devices"
pcieportDriverPath == "bus/pci/drivers/pcieport"
netclassPath == "class/net"

\* The parts of the mounted tree the readers look at:
\*   pci       directory name (text) -> [link, files] under bus/pci/devices
\*   pcieport  entry name -> [regular, files] under bus/pci/drivers/pcieport
\*   net       interface name -> [files, device] under class/net, where device
\*             is [st, files], the interface's device subdirectory: st is "ok",
\*             "ENOENT" (there is none) or "EACCES" (it cannot be looked at)
\* An entry's files map a file name to a File.
NoFiles == <<>>

EmptySysfs == [pci |-> <<>>, pcieport |-> <<>>, net |-> <<>>]

\* fs.sys.Path(pciDevicesPath, name) as a directory handle
PciDeviceDir(fs, name) ==
    [path  |-> <<pciDevicesPath, name>>,
     notdir |-> FALSE,
     files |-> IF name \in DOMAIN fs.pci THEN fs.pci[name].files ELSE NoFiles]

\* fs.sys.Path(pcieportDriverPath, name) as a directory handle
PcieportDeviceDir(fs, name) ==
    [path  |-> <<pcieportDriverPath, name>>,
     notdir |-> name \in DOMAIN fs.pcieport /\ fs.pcieport[name].regular,
     files |-> IF name \in DOMAIN fs.pcieport THEN fs.pcieport[name].files ELSE NoFiles]

\* filepath.Join(fs.sys.Path(netclassPath), iface) as a directory handle
NetIfaceDir(fs, iface) ==
    [path  |-> <<netclassPath, iface>>,
     notdir |-> FALSE,
     files |-> IF iface \in DOMAIN fs.net THEN fs.net[iface].files ELSE NoFiles]

\* filepath.Join(fs.sys.Path(netclassPath), iface, "device") as a directory handle
NetDeviceDir(fs, iface) ==
    [path  |-> <<netclassPath, iface, "device">>,
     notdir |-> FALSE,
     files |-> IF iface \in DOMAIN fs.net /\ fs.net[iface].device.st = "ok"
               THEN fs.net[iface].device.files ELSE NoFiles]

\* PciDevice.AerCounters(fs): the directory named by the dot form of the
\* device's location, then parseAerCounters
PciDeviceAerCounters(fs, pci) ==
    parseAerCounters(PciDeviceDir(fs, DeviceName(pci.Location)))

\* ------------------------------------- root-port aggregation (pci_device_rootport_aer.go)

\* the names of a directory's entries in os.ReadDir order (sorted by name);
\* the model's entry names are listed in that order
PortNames == <<"0000:00:02.1", "0000:00:03.0", "bind">>

RECURSIVE Present(_, _)
\* the names of the sequence that the directory holds, in order
Present(names, dir) ==
    IF names = <<>> THEN <<>>
    ELSE (IF names[1] \in DOMAIN dir THEN <<names[1]>> ELSE <<>>)
           \o Present(Tail(names), dir)

RECURSIVE SkipRegular(_, _)
\* the loop of RootPortDevices: regular entries are passed over
SkipRegular(devices, dir) ==
    IF devices = <<>> THEN <<>>
    ELSE (IF dir[devices[1]].regular THEN <<>> ELSE <<devices[1]>>)
           \o SkipRegular(Tail(devices), dir)

\* FS.RootPortDevices
RootPortDevices(fs) == Ok(SkipRegular(Present(PortNames, fs.pcieport), fs.pcieport))

\* RootPortAerCounters{}
ZeroRootPort == [TotalErrCor |-> 0, TotalErrFatal |-> 0, TotalErrNonFatal |-> 0]

\* the switch on filename of parseRootPortAerCounters (pcieport)
RootPortSwitch(rootportcounter, filename, fieldValue) ==
    CASE filename = "aer_rootport_total_err_cor" ->
           [rootportcounter EXCEPT !.TotalErrCor = fieldValue]
      [] filename = "aer_rootport_total_err_nonfatal" ->
           [rootportcounter EXCEPT !.TotalErrNonFatal = fieldValue]
      [] filename = "aer_rootport_total_err_fatal" ->
           [rootportcounter EXCEPT !.TotalErrFatal = fieldValue]
      [] OTHER -> rootportcounter

RECURSIVE RootPortFiles_ZeroOnFailure(_, _, _)
\* a faulty loop that leaves the total at zero when its file cannot be read
\* or parsed, and goes on
RootPortFiles_ZeroOnFailure(deviceDir, filenames, rootportcounter) ==
    IF filenames = <<>> THEN Ok(PtrTo(rootportcounter))
    ELSE
      LET filename == filenames[1]
          value    == SysReadFile(Lookup(deviceDir, filename))
      IN IF value.err # NoErr
         THEN RootPortFiles_ZeroOnFailure(deviceDir, Tail(filenames),
                                          RootPortSwitch(rootportcounter, filename, 0))
         ELSE
           LET valueStr == TrimSpace(value.val)
               v        == ParseUint(valueStr, 10, 64)
           IN RootPortFiles_ZeroOnFailure(deviceDir, Tail(filenames),
                RootPortSwitch(rootportcounter, filename,
                               IF valueStr # <<>> /\ v.err = NoErr THEN v.val ELSE 0))

RECURSIVE RootPortFiles(_, _, _)
\* the loop of parseRootPortAerCounters (pcieport) over the three file names
RootPortFiles(deviceDir, filenames, rootportcounter) ==
    IF filenames = <<>> THEN Ok(PtrTo(rootportcounter))
    ELSE
      LET filename == filenames[1]
          value    == SysReadFile(Lookup(deviceDir, filename))
      IN IF value.err # NoErr THEN FailWrap("failed to read file", value.err)
         ELSE
           LET valueStr == TrimSpace(value.val)
               v        == ParseUint(valueStr, 10, 64)
           IN IF valueStr # <<>> /\ v.err # NoErr
              THEN FailWrap("error parsing", v.err)
              ELSE RootPortFiles(deviceDir, Tail(filenames),
                     RootPortSwitch(rootportcounter, filename,
                                    IF valueStr # <<>> THEN v.val ELSE 0))

\* a nil *RootPortAerCounters
NilRootPort == NilPtr

\* a faulty variant that reports a device without the presence file as a
\* record of zero totals
parseRootPortAerCounters_pcieport_Zeros(deviceDir) ==
    IF osIsNotExist(StatFile(Lookup(deviceDir, "aer_rootport_total_err_cor")))
    THEN Ok(PtrTo(ZeroRootPort))
    ELSE RootPortFiles(deviceDir,
                       <<"aer_rootport_total_err_cor",
                         "aer_rootport_total_err_nonfatal",
                         "aer_rootport_total_err_fatal">>,
                       ZeroRootPort)

\* parseRootPortAerCounters(deviceDir) of pci_device_rootport_aer.go: nil
\* when the presence file does not exist, else the three totals
parseRootPortAerCounters_pcieport(deviceDir) ==
    IF osIsNotExist(StatFile(Lookup(deviceDir, "aer_rootport_total_err_cor")))
    THEN Ok(NilRootPort)
    ELSE RootPortFiles(deviceDir,
                       <<"aer_rootport_total_err_cor",
                         "aer_rootport_total_err_nonfatal",
                         "aer_rootport_total_err_fatal">>,
                       ZeroRootPort)

RECURSIVE RootPortLoop(_, _, _)
\* the loop of RootPortAerCounters over the device names
RootPortLoop(fs, devices, allRootPortAerCounters) ==
    IF devices = <<>> THEN Ok(allRootPortAerCounters)
    ELSE
      LET deviceName == devices[1]
          counters   == parseRootPortAerCounters_pcieport(PcieportDeviceDir(fs, deviceName))
      IN IF counters.err # NoErr THEN [err |-> counters.err, val |-> <<>>]
         ELSE IF counters.val = NilRootPort
         THEN RootPortLoop(fs, Tail(devices), allRootPortAerCounters)
         ELSE RootPortLoop(fs, Tail(devices),
                [n \in DOMAIN allRootPortAerCounters \cup {deviceName} |->
                    IF n = deviceName THEN counters.val[1]
                    ELSE allRootPortAerCounters[n]])

\* FS.RootPortAerCounters
RootPortAerCounters(fs) ==
    LET devices == RootPortDevices(fs) IN
    IF devices.err # NoErr THEN [err |-> devices.err, val |-> <<>>]
    ELSE RootPortLoop(fs, devices.val, <<>>)

\* ------------------------------------------------ network bridge (net_class_aer.go)

\* FS.NetClassByIface: the NetClass lookup, which fails when class/net holds
\* no such interface
NetClassByIface(fs, devicePath) ==
    IF devicePath \in DOMAIN fs.net THEN NoErr ELSE NewError("interface not found")

\* a nil *AerCounters
NilAerCounters == NilPtr

\* FS.AerCountersByIface
AerCountersByIface(fs, devicePath) ==
    Bind(NetClassByIface(fs, devicePath), LAMBDA err :
      IF err # NoErr THEN [err |-> err, val |-> NilAerCounters, reads |-> <<>>]
      ELSE
        Bind(parseAerCounters(NetIfaceDir(fs, devicePath)), LAMBDA Counters :
          IF Counters.err # NoErr
          THEN [err |-> Counters.err, val |-> NilAerCounters, reads |-> Counters.reads]
          ELSE IF Counters.counters = NilCounters
          THEN [err |-> NoErr, val |-> NilAerCounters, reads |-> Counters.reads]
          ELSE [err |-> NoErr, reads |-> Counters.reads,
                val |-> PtrTo([PciDeviceAerCounters |-> Counters.counters[1],
                               Name |-> devicePath])]))

\* FS.NetClassDevices: the names of the entries of class/net, in os.ReadDir
\* order
IfaceOrder == <<"eth0", "lo">>

NetClassDevices(fs) == Ok(Present(IfaceOrder, fs.net))

\* os.Stat(deviceDir) of an interface's device subdirectory
StatDeviceDir(fs, iface) ==
    IF fs.net[iface].device.st = "ok" THEN NoErr
    ELSE NewError(fs.net[iface].device.st)

\* a nil AllAerCounters map; a map that is not nil is PtrTo(the map)
NilAllAerCounters == NilPtr

RECURSIVE AerCountersLoop_FailOnMissing(_, _, _, _)
\* a faulty variant of the loop that returns the stat error of an interface
\* without a device directory
AerCountersLoop_FailOnMissing(fs, devices, allAerCounters, reads) ==
    IF devices = <<>>
    THEN [err |-> NoErr, val |-> PtrTo(allAerCounters), reads |-> reads]
    ELSE
      Bind(StatDeviceDir(fs, devices[1]), LAMBDA err :
        IF err # NoErr
        THEN [err |-> err, val |-> NilAllAerCounters, reads |-> reads]
        ELSE
          Bind(parseAerCounters(NetDeviceDir(fs, devices[1])), LAMBDA Counters :
            IF Counters.err # NoErr
            THEN IF osIsNotExist(Counters.err)
                 THEN AerCountersLoop_FailOnMissing(fs, Tail(devices), allAerCounters,
                                                    reads \o Counters.reads)
                 ELSE [err |-> Counters.err, val |-> NilAllAerCounters,
                       reads |-> reads \o Counters.reads]
            ELSE IF Counters.counters = NilCounters
            THEN AerCountersLoop_FailOnMissing(fs, Tail(devices), allAerCounters,
                                               reads \o Counters.reads)
            ELSE AerCountersLoop_FailOnMissing(fs, Tail(devices),
                   (devices[1] :> [PciDeviceAerCounters |-> Counters.counters[1],
                                   Name |-> devices[1]]) @@ allAerCounters,
                   reads \o Counters.reads)))

RECURSIVE AerCountersLoop(_, _, _, _)
\* the loop of FS.AerCounters over the interface names; reads is the files
\* read so far, in order
AerCountersLoop(fs, devices, allAerCounters, reads) ==
    IF devices = <<>>
    THEN [err |-> NoErr, val |-> PtrTo(allAerCounters), reads |-> reads]
    ELSE
      Bind(StatDeviceDir(fs, devices[1]), LAMBDA err :
        IF err # NoErr
        THEN IF osIsNotExist(err)
             THEN AerCountersLoop(fs, Tail(devices), allAerCounters, reads)
             ELSE [err |-> err, val |-> NilAllAerCounters, reads |-> reads]
        ELSE
          Bind(parseAerCounters(NetDeviceDir(fs, devices[1])), LAMBDA Counters :
            IF Counters.err # NoErr
            THEN IF osIsNotExist(Counters.err)
                 THEN AerCountersLoop(fs, Tail(devices), allAerCounters,
                                      reads \o Counters.reads)
                 ELSE [err |-> Counters.err, val |-> NilAllAerCounters,
                       reads |-> reads \o Counters.reads]
            ELSE IF Counters.counters = NilCounters
            THEN AerCountersLoop(fs, Tail(devices), allAerCounters,
                                 reads \o Counters.reads)
            ELSE AerCountersLoop(fs, Tail(devices),
                   (devices[1] :> [PciDeviceAerCounters |-> Counters.counters[1],
                                   Name |-> devices[1]]) @@ allAerCounters,
                   reads \o Counters.reads)))

\* FS.AerCounters: the bulk form
AerCounters(fs) ==
    Bind(NetClassDevices(fs), LAMBDA devices :
      IF devices.err # NoErr
      THEN [err |-> devices.err, val |-> NilAllAerCounters, reads |-> <<>>]
      ELSE AerCountersLoop(fs, devices.val, <<>>, <<>>))

\* --------------------------------------------------- device scan (pci_device.go)

\* strconv.ParseFloat(s, 64) on plain decimal texts: an optional sign, digits
\* with at most one point, a digit on one side of it at least.  (Exponents,
\* hexadecimal floats, underscores, "inf" and "nan" are texts the model never
\* writes into a file.)  The value is mant / 10^scale, in lowest scale.
ParseFloat(s) ==
    LET body == IF s # <<>> /\ s[1] \in {"+", "-"} THEN Tail(s) ELSE s
        dot  == IndexOf(body, ".", 1)
        int  == IF dot = 0 THEN body ELSE SubSeq(body, 1, dot - 1)
        frac == IF dot = 0 THEN <<>> ELSE Tail0(body, dot + 1)
        RECURSIVE DropZeros(_)
        DropZeros(t) == IF t # <<>> /\ t[Len(t)] = "0"
                        THEN DropZeros(SubSeq(t, 1, Len(t) - 1)) ELSE t
        fr   == DropZeros(frac)
        digs == int \o fr
    IN IF int \o frac = <<>> \/ \E i \in 1..Len(int \o frac) : DigitVal((int \o frac)[i]) >= 10
       THEN Fail("ErrSyntax")
       ELSE Ok([neg   |-> s[1] = "-" /\ NumeralValue(digs, 10, 0) # 0,
                mant  |-> NumeralValue(digs, 10, 0),
                scale |-> Len(fr)])

\* float64(value) of an integer
Float64(v) == [neg |-> v < 0, mant |-> IF v < 0 THEN 0 - v ELSE v, scale |-> 0]

\* uint32(value) of a signed 32-bit value, kept as its two 16-bit halves so
\* that the wrap of a negative value stays inside the model checker's integers
Uint32(v) ==
    IF v >= 0 THEN [hi |-> v \div 65536, lo |-> v % 65536]
    ELSE [hi |-> 65535 - ((0 - v - 1) \div 65536), lo |-> 65535 - ((0 - v - 1) % 65536)]

RECURSIVE LastSlash(_, _)
LastSlash(p, i) == IF i = 0 THEN 0 ELSE IF p[i] = "/" THEN i ELSE LastSlash(p, i - 1)

\* filepath.Base and filepath.Dir of a clean path (no trailing or doubled
\* slash): the last element, and what precedes it
Base(p) ==
    IF p = <<>> THEN <<".">> ELSE Tail0(p, LastSlash(p, Len(p)) + 1)

Dir(p) ==
    LET i == LastSlash(p, Len(p)) IN
    IF i = 0 THEN <<".">> ELSE IF i = 1 THEN <<"/">> ELSE SubSeq(p, 1, i - 1)

\* os.Readlink of an entry: the target, or the error for what is no symlink
Readlink(entry) ==
    IF entry.link.st = "ok" THEN Ok(entry.link.target) ELSE Fail(entry.link.st)

\* &PciDevice{Location: *deviceLoc, ParentLocation: parentDeviceLoc}
NewPciDevice(deviceLoc, parentDeviceLoc) ==
    [Location |-> deviceLoc, ParentLocation |-> parentDeviceLoc,
     Class |-> Uint32(0), Vendor |-> Uint32(0), Device |-> Uint32(0),
     SubsystemVendor |-> Uint32(0), SubsystemDevice |-> Uint32(0),
     Revision |-> Uint32(0),
     NumaNode |-> NilPtr,
     MaxLinkSpeed |-> NilPtr, MaxLinkWidth |-> NilPtr,
     CurrentLinkSpeed |-> NilPtr, CurrentLinkWidth |-> NilPtr,
     SriovDriversAutoprobe |-> NilPtr, SriovNumvfs |-> NilPtr,
     SriovOffset |-> NilPtr, SriovStride |-> NilPtr, SriovTotalvfs |-> NilPtr,
     SriovVfDevice |-> NilPtr, SriovVfTotalMsix |-> NilPtr,
     D3coldAllowed |-> NilPtr, PowerState |-> NilPtr]

IdentityFiles ==
    <<"class", "vendor", "device", "subsystem_vendor", "subsystem_device", "revision">>

LinkFiles ==
    <<"max_link_speed", "max_link_width", "current_link_speed",
      "current_link_width", "numa_node">>

SriovFiles ==
    <<"sriov_drivers_autoprobe", "sriov_numvfs", "sriov_offset", "sriov_stride",
      "sriov_totalvfs", "sriov_vf_device", "sriov_vf_total_msix">>

PowerFiles == <<"d3cold_allowed", "power_state">>

\* the body of the first loop for one file
IdentityValue(dir, f, device) ==
    Bind(SysReadFile(Lookup(dir, f)), LAMBDA valueStr :
      IF valueStr.err # NoErr THEN FailWrap("failed to read file", valueStr.err)
      ELSE
        Bind(ParseInt(valueStr.val, 0, 32), LAMBDA value :
          IF value.err # NoErr THEN FailWrap("failed to parse", value.err)
          ELSE Ok(CASE f = "class" -> [device EXCEPT !.Class = Uint32(value.val)]
                    [] f = "vendor" -> [device EXCEPT !.Vendor = Uint32(value.val)]
                    [] f = "device" -> [device EXCEPT !.Device = Uint32(value.val)]
                    [] f = "subsystem_vendor" ->
                         [device EXCEPT !.SubsystemVendor = Uint32(value.val)]
                    [] f = "subsystem_device" ->
                         [device EXCEPT !.SubsystemDevice = Uint32(value.val)]
                    [] f = "revision" ->
                         [device EXCEPT !.Revision = Uint32(value.val)])))

RECURSIVE IdentityLoop(_, _, _)
\* the loop over the files that must exist
IdentityLoop(dir, files, device) ==
    IF files = <<>> THEN Ok(device)
    ELSE Bind(IdentityValue(dir, files[1], device), LAMBDA d :
           IF d.err # NoErr THEN d ELSE IdentityLoop(dir, Tail(files), d.val))

UnknownText == <<"U", "n", "k", "n", "o", "w", "n">>
GTsPCIe == <<"G", "T", "/", "s", " ", "P", "C", "I", "e">>

\* the switch of the link/NUMA loop for one file whose text is valueStr
LinkSwitch(f, valueStr, device) ==
    IF f \in {"max_link_speed", "current_link_speed"}
    THEN
      Bind(SplitAfterN2(valueStr, " "), LAMBDA values :
        IF Len(values) # 2 THEN Fail("invalid value")
        ELSE IF values[2] # GTsPCIe THEN Fail("unknown unit")
        ELSE
          Bind(ParseFloat(TrimSpace(values[1])), LAMBDA value :
            IF value.err # NoErr THEN FailWrap("failed to parse", value.err)
            ELSE IF f = "max_link_speed"
            THEN Ok([device EXCEPT !.MaxLinkSpeed = PtrTo(value.val)])
            ELSE Ok([device EXCEPT !.CurrentLinkSpeed = PtrTo(value.val)])))
    ELSE IF f \in {"max_link_width", "current_link_width"}
    THEN
      Bind(ParseInt(valueStr, 10, 64), LAMBDA value :
        IF value.err # NoErr THEN FailWrap("failed to parse", value.err)
        ELSE IF f = "max_link_width"
        THEN Ok([device EXCEPT !.MaxLinkWidth = PtrTo(Float64(value.val))])
        ELSE Ok([device EXCEPT !.CurrentLinkWidth = PtrTo(Float64(value.val))]))
    ELSE
      Bind(ParseInt(valueStr, 10, 32), LAMBDA value :
        IF value.err # NoErr THEN FailWrap("failed to parse", value.err)
        ELSE Ok([device EXCEPT !.NumaNode = PtrTo(value.val)]))

\* the body of the link/NUMA loop for one file: a file that does not exist,
\* is empty or starts with "Unknown" leaves the device as it is
LinkValue(dir, f, device) ==
    Bind(SysReadFile(Lookup(dir, f)), LAMBDA valueStr :
      IF valueStr.err # NoErr
      THEN IF osIsNotExist(valueStr.err) THEN Ok(device)
           ELSE FailWrap("failed to read file", valueStr.err)
      ELSE IF valueStr.val = <<>> \/ HasPrefix(valueStr.val, UnknownText) THEN Ok(device)
      ELSE LinkSwitch(f, valueStr.val, device))

RECURSIVE LinkLoop(_, _, _)
\* the loop over the link and NUMA files
LinkLoop(dir, files, device) ==
    IF files = <<>> THEN Ok(device)
    ELSE Bind(LinkValue(dir, files[1], device), LAMBDA d :
           IF d.err # NoErr THEN d ELSE LinkLoop(dir, Tail(files), d.val))

\* a faulty variant that takes a value of 0 for no value
SriovSwitch_ZeroUnset(f, valueStr, device) ==
    Bind(CASE f = "sriov_drivers_autoprobe" -> ParseInt(valueStr, 10, 32)
           [] f = "sriov_vf_device" -> ParseUint(valueStr, 16, 32)
           [] f = "sriov_vf_total_msix" -> ParseUint(valueStr, 10, 64)
           [] OTHER -> ParseUint(valueStr, 10, 32),
         LAMBDA value :
      IF value.err # NoErr THEN FailWrap("failed to parse SR-IOV", value.err)
      ELSE IF value.val = 0 THEN Ok(device)
      ELSE Ok(CASE f = "sriov_drivers_autoprobe" ->
                     [device EXCEPT !.SriovDriversAutoprobe = PtrTo(value.val # 0)]
                [] f = "sriov_numvfs" -> [device EXCEPT !.SriovNumvfs = PtrTo(value.val)]
                [] f = "sriov_offset" -> [device EXCEPT !.SriovOffset = PtrTo(value.val)]
                [] f = "sriov_stride" -> [device EXCEPT !.SriovStride = PtrTo(value.val)]
                [] f = "sriov_totalvfs" ->
                     [device EXCEPT !.SriovTotalvfs = PtrTo(value.val)]
                [] f = "sriov_vf_device" ->
                     [device EXCEPT !.SriovVfDevice = PtrTo(value.val)]
                [] f = "sriov_vf_total_msix" ->
                     [device EXCEPT !.SriovVfTotalMsix = PtrTo(value.val)]))

\* the switch of the SR-IOV loop for one file whose trimmed text is valueStr
SriovSwitch(f, valueStr, device) ==
    Bind(CASE f = "sriov_drivers_autoprobe" -> ParseInt(valueStr, 10, 32)
           [] f = "sriov_vf_device" -> ParseUint(valueStr, 16, 32)
           [] f = "sriov_vf_total_msix" -> ParseUint(valueStr, 10, 64)
           [] OTHER -> ParseUint(valueStr, 10, 32),
         LAMBDA value :
      IF value.err # NoErr THEN FailWrap("failed to parse SR-IOV", value.err)
      ELSE Ok(CASE f = "sriov_drivers_autoprobe" ->
                     [device EXCEPT !.SriovDriversAutoprobe = PtrTo(value.val # 0)]
                [] f = "sriov_numvfs" -> [device EXCEPT !.SriovNumvfs = PtrTo(value.val)]
                [] f = "sriov_offset" -> [device EXCEPT !.SriovOffset = PtrTo(value.val)]
                [] f = "sriov_stride" -> [device EXCEPT !.SriovStride = PtrTo(value.val)]
                [] f = "sriov_totalvfs" ->
                     [device EXCEPT !.SriovTotalvfs = PtrTo(value.val)]
                [] f = "sriov_vf_device" ->
                     [device EXCEPT !.SriovVfDevice = PtrTo(value.val)]
                [] f = "sriov_vf_total_msix" ->
                     [device EXCEPT !.SriovVfTotalMsix = PtrTo(value.val)]))

\* the body of the SR-IOV loop for one file
SriovValue(dir, f, device) ==
    Bind(SysReadFile(Lookup(dir, f)), LAMBDA value :
      IF value.err # NoErr
      THEN IF osIsNotExist(value.err) THEN Ok(device)
           ELSE FailWrap("failed to read SR-IOV file", value.err)
      ELSE Bind(TrimSpace(value.val), LAMBDA valueStr :
             IF valueStr = <<>> THEN Ok(device) ELSE SriovSwitch(f, valueStr, device)))

RECURSIVE SriovLoop(_, _, _)
\* the loop over the SR-IOV files
SriovLoop(dir, files, device) ==
    IF files = <<>> THEN Ok(device)
    ELSE Bind(SriovValue(dir, files[1], device), LAMBDA d :
           IF d.err # NoErr THEN d ELSE SriovLoop(dir, Tail(files), d.val))

\* the switch of the power loop for one file whose trimmed text is valueStr
PowerSwitch(f, valueStr, device) ==
    IF f = "d3cold_allowed"
    THEN Bind(ParseInt(valueStr, 10, 32), LAMBDA value :
           IF value.err # NoErr
           THEN FailWrap("failed to parse d3cold_allowed", value.err)
           ELSE Ok([device EXCEPT !.D3coldAllowed = PtrTo(value.val # 0)]))
    ELSE Ok([device EXCEPT !.PowerState = PtrTo(valueStr)])

\* the body of the power loop for one file
PowerValue(dir, f, device) ==
    Bind(SysReadFile(Lookup(dir, f)), LAMBDA value :
      IF value.err # NoErr
      THEN IF osIsNotExist(value.err) THEN Ok(device)
           ELSE FailWrap("failed to read power management file", value.err)
      ELSE Bind(TrimSpace(value.val), LAMBDA valueStr :
             IF valueStr = <<>> THEN Ok(device) ELSE PowerSwitch(f, valueStr, device)))

RECURSIVE PowerLoop(_, _, _)
\* the loop over the power management files
PowerLoop(dir, files, device) ==
    IF files = <<>> THEN Ok(device)
    ELSE Bind(PowerValue(dir, files[1], device), LAMBDA d :
           IF d.err # NoErr THEN d ELSE PowerLoop(dir, Tail(files), d.val))

PciPrefix == <<"p", "c", "i">>

\* the four loops of parsePciDevice over the attribute files, in order
AttributeLoops(dir, device) ==
    Bind(IdentityLoop(dir, IdentityFiles, device), LAMBDA d1 :
      IF d1.err # NoErr THEN d1
      ELSE Bind(LinkLoop(dir, LinkFiles, d1.val), LAMBDA d2 :
             IF d2.err # NoErr THEN d2
             ELSE Bind(SriovLoop(dir, SriovFiles, d2.val), LAMBDA d3 :
                    IF d3.err # NoErr THEN d3
                    ELSE PowerLoop(dir, PowerFiles, d3.val))))

\* the head of parsePciDevice for a link target: the device it starts from
DeviceOfLink(realPath) ==
    Bind(Base(realPath), LAMBDA deviceLocStr :
      Bind(Base(Dir(realPath)), LAMBDA parentDeviceLocStr :
        Bind(parsePciDeviceLocation(deviceLocStr), LAMBDA deviceLoc :
          IF deviceLoc.err # NoErr
          THEN FailWrap("failed to parse device location", deviceLoc.err)
          ELSE IF HasPrefix(parentDeviceLocStr, PciPrefix)
          THEN Ok(NewPciDevice(deviceLoc.val, NilPtr))
          ELSE
            Bind(parsePciDeviceLocation(parentDeviceLocStr), LAMBDA parentDeviceLoc :
              IF parentDeviceLoc.err # NoErr
              THEN FailWrap("failed to parse parent device location",
                            parentDeviceLoc.err)
              ELSE Ok(NewPciDevice(deviceLoc.val, PtrTo(parentDeviceLoc.val)))))))

\* FS.parsePciDevice(name): the device record, or the first error
parsePciDevice(fs, name) ==
    Bind(Readlink(fs.pci[name]), LAMBDA realPath :
      IF realPath.err # NoErr THEN FailWrap("failed to readlink", realPath.err)
      ELSE Bind(DeviceOfLink(realPath.val), LAMBDA device :
             IF device.err # NoErr THEN device
             ELSE AttributeLoops(PciDeviceDir(fs, name), device.val)))

\* PciDevice.Name
Name(pd) == String(pd.Location)

\* the names of bus/pci/devices the model uses, in os.ReadDir order
ScanLocations ==
    <<PciDeviceLocation(0, 0, 2, 1), PciDeviceLocation(0, 1, 0, 0),
      PciDeviceLocation(0, 162, 0, 0), PciDeviceLocation(1, 0, 0, 0)>>

ScanNames == [i \in 1..Len(ScanLocations) |-> DeviceName(ScanLocations[i])]

\* a nil PciDevices map; a map that is not nil is PtrTo(the map)
NilPciDevices == NilPtr

RECURSIVE ScanLoop_BestEffort(_, _, _)
\* a faulty variant of the loop that passes over an entry that fails
ScanLoop_BestEffort(fs, dirs, pciDevs) ==
    IF dirs = <<>> THEN Ok(PtrTo(pciDevs))
    ELSE Bind(parsePciDevice(fs, dirs[1]), LAMBDA device :
           IF device.err # NoErr THEN ScanLoop_BestEffort(fs, Tail(dirs), pciDevs)
           ELSE ScanLoop_BestEffort(fs, Tail(dirs),
                                    (Name(device.val) :> device.val) @@ pciDevs))

RECURSIVE ScanLoop(_, _, _)
\* the loop of PciDevices over the directory entries
ScanLoop(fs, dirs, pciDevs) ==
    IF dirs = <<>> THEN Ok(PtrTo(pciDevs))
    ELSE Bind(parsePciDevice(fs, dirs[1]), LAMBDA device :
           IF device.err # NoErr THEN [err |-> device.err, val |-> NilPciDevices]
           ELSE ScanLoop(fs, Tail(dirs), (Name(device.val) :> device.val) @@ pciDevs))

\* FS.PciDevices
PciDevices(fs) == ScanLoop(fs, Present(ScanNames, fs.pci), <<>>)

\* ------------------------------------------------ codec: state and steps

VARIABLES
    pdl,     \* the PciDeviceLocation being formatted
    loc,     \* the text handed to parsePciDeviceLocation
    form,    \* how loc was made: "String", "DeviceName" or "text"
    origin,  \* for form = "text": the components and separators loc was joined from
    cstep,   \* "start", "formatted", "parsed" ("off" outside the codec runs)
    parsed   \* the result of parsePciDeviceLocation(loc)

codecVars == <<pdl, loc, form, origin, cstep, parsed>>

\* the state of the mounted tree and of the call made on it
VARIABLES
    sysfs,    \* the tree the FS value reads
    fixture,  \* what the tree was populated from, file by file
    call,     \* the operation invoked and its arguments
    ret,      \* what it returned
    fstep,    \* "boot", "mounted", "returned" ("off" in the codec runs)
    frames    \* the calls in progress, where calls are followed read by read:
              \* for each caller its local variables and its place in the code

fsVars == <<sysfs, fixture, call, ret, fstep, frames>>

vars ==
    <<pdl, loc, form, origin, cstep, parsed, sysfs, fixture, call, ret, fstep, frames>>

MaxComponents == 5

SegmentValues  == {0, 1, 255, 4096, 65535}
BusValues      == {0, 1, 162, 255}
DeviceValues   == {0, 2, 31}
FunctionValues == {0, 1, 7}

Locations ==
    { PciDeviceLocation(s, b, d, f) :
        s \in SegmentValues, b \in BusValues, d \in DeviceValues, f \in FunctionValues }

\* the components a parsed text is joined from: empty, plain numerals,
\* signed numerals, a word that is no numeral
Components ==
    { <<>>, <<"0">>, <<"1", "f">>, <<"-", "1">>, <<"+", "a">>, <<"z">> }

Separators == {":", "."}

NoOrigin == [comps |-> <<>>, seps |-> <<>>]

RECURSIVE JoinWith(_, _)
\* comps[1] seps[1] comps[2] seps[2] ... comps[n]
JoinWith(comps, seps) ==
    IF Len(comps) = 0 THEN <<>>
    ELSE IF Len(comps) = 1 THEN comps[1]
    ELSE comps[1] \o <<seps[1]>> \o JoinWith(Tail(comps), Tail(seps))

CodecOff ==
    /\ pdl = NoLocation
    /\ loc = <<>>
    /\ form = "none"
    /\ origin = NoOrigin
    /\ cstep = "off"
    /\ parsed = Fail("none")

CodecInit ==
    /\ pdl = NoLocation
    /\ loc = <<>>
    /\ form = "none"
    /\ origin = NoOrigin
    /\ cstep = "start"
    /\ parsed = Fail("none")

\* pdl.String() of some location
FormatString ==
    /\ cstep = "start"
    /\ \E l \in Locations :
         /\ pdl' = l
         /\ loc' = String(l)
    /\ form' = "String"
    /\ cstep' = "formatted"
    /\ UNCHANGED <<origin, parsed>>
    /\ UNCHANGED fsVars

\* the Sprintf of PciDevice.AerCounters on some location
FormatDeviceName ==
    /\ cstep = "start"
    /\ \E l \in Locations :
         /\ pdl' = l
         /\ loc' = DeviceName(l)
    /\ form' = "DeviceName"
    /\ cstep' = "formatted"
    /\ UNCHANGED <<origin, parsed>>
    /\ UNCHANGED fsVars

\* a text from outside (a path segment of a symlink target)
ReceiveText ==
    /\ cstep = "start"
    /\ \E n \in 1..MaxComponents :
         \E c \in [1..n -> Components], s \in [1..(n - 1) -> Separators] :
            /\ origin' = [comps |-> c, seps |-> s]
            /\ loc' = JoinWith(c, s)
    /\ form' = "text"
    /\ cstep' = "formatted"
    /\ UNCHANGED <<pdl, parsed>>
    /\ UNCHANGED fsVars

\* parsePciDeviceLocation(loc)
ParseLocation ==
    /\ cstep = "formatted"
    /\ parsed' = parsePciDeviceLocation(loc)
    /\ cstep' = "parsed"
    /\ UNCHANGED <<pdl, loc, form, origin>>
    /\ UNCHANGED fsVars

CodecNext == FormatString \/ FormatDeviceName \/ ReceiveText \/ ParseLocation

\* ---------------------------------------------------- codec: properties

ValidLocation(l) ==
    /\ l.Segment \in 0..65535
    /\ l.Bus \in 0..255
    /\ l.Device \in 0..31
    /\ l.Function \in 0..7

\* C1: round trip of the location codec: for every valid location,
\* parsePciDeviceLocation applied to the text of PciDeviceLocation.String()
\* succeeds and returns the original location.
C1_RoundTrip ==
    (cstep = "parsed" /\ form = "String" /\ ValidLocation(pdl))
        => (parsed.err = NoErr /\ parsed.val = pdl)

\* C2: both separators are accepted: for every valid location, parsing the
\* dot form SSSS:BB:DD.F and parsing the colon form SSSS:BB:DD:F both succeed
\* and give that location.
C2_BothSeparators ==
    (cstep = "parsed" /\ form \in {"String", "DeviceName"} /\ ValidLocation(pdl))
        => (parsed.err = NoErr /\ parsed.val = pdl)

\* the dot form alone does round-trip (what the code does guarantee)
DotFormRoundTrip ==
    (cstep = "parsed" /\ form = "DeviceName" /\ ValidLocation(pdl))
        => (parsed.err = NoErr /\ parsed.val = pdl)

HexChars == {"0", "1", "2", "3", "4", "5", "6", "7", "8", "9",
             "a", "b", "c", "d", "e", "f", "A", "B", "C", "D", "E", "F"}

\* an unsigned base-16 numeral: one hex digit or more, nothing else
UnsignedHex(c) == Len(c) >= 1 /\ \A i \in 1..Len(c) : c[i] \in HexChars

\* four components segment:bus:device(.|:)function
FourComponents(o) ==
    /\ Len(o.comps) = 4
    /\ o.seps[1] = ":" /\ o.seps[2] = ":"

\* C3: the parser fails for every text from which four components cannot be
\* recovered and for every text with a component that is no unsigned base-16
\* numeral (sign-prefixed and empty components included), and it never
\* returns a location with a negative field.
C3_MalformedRejected ==
    (cstep = "parsed" /\ form = "text") =>
        /\ (~FourComponents(origin)
              \/ \E i \in 1..Len(origin.comps) : ~UnsignedHex(origin.comps[i]))
             => parsed.err # NoErr
        /\ parsed.err = NoErr =>
             /\ parsed.val.Segment >= 0 /\ parsed.val.Bus >= 0
             /\ parsed.val.Device >= 0 /\ parsed.val.Function >= 0

\* the part of C3 the code does keep: without four components, or with an
\* empty or non-numeral component, the parse fails
SignedHex(c) ==
    UnsignedHex(c) \/ (Len(c) >= 2 /\ c[1] \in {"+", "-"} /\ UnsignedHex(Tail(c)))

MalformedRejectedUpToSign ==
    (cstep = "parsed" /\ form = "text") =>
        ((~FourComponents(origin)
            \/ \E i \in 1..Len(origin.comps) : ~SignedHex(origin.comps[i]))
           => parsed.err # NoErr)

\* ------------------------------------------- the mounted tree: state and steps

NoCall == [op |-> "none"]

FsOff ==
    /\ sysfs = EmptySysfs
    /\ fixture = <<>>
    /\ call = NoCall
    /\ ret = <<>>
    /\ fstep = "off"
    /\ frames = <<>>

FsInit ==
    /\ sysfs = EmptySysfs
    /\ fixture = <<>>
    /\ call = NoCall
    /\ ret = <<>>
    /\ fstep = "boot"
    /\ frames = <<>>

\* a run on the mounted tree starts with no codec run in it
TreeInit == CodecOff /\ FsInit

\* a codec run starts with no tree mounted
LocationInit == CodecInit /\ FsOff

\* ---- counter files

MaxLines == 3

\* a line of a counter file: "kv" is <name> <decimal value>, "raw" is one of
\* the texts of RawText
KV(name, val) == [kind |-> "kv", name |-> name, val |-> val]
Raw(name) == [kind |-> "raw", name |-> name, val |-> 0]

RawText ==
    [empty       |-> <<>>,
     blank       |-> <<" ", " ">>,
     onefield    |-> NameText.RxErr,
     threefields |-> NameText.TLP \o <<" ", "1", " ", "2">>,
     badvalue    |-> NameText.RxErr \o <<" ", "x">>,
     signed      |-> NameText.TLP \o <<" ", "-", "1">>]

RenderLine(l) ==
    IF l.kind = "kv" THEN NameText[l.name] \o <<" ">> \o DecDigits(l.val)
    ELSE RawText[l.name]

\* the text of a counter file: its lines, each ended by a line feed
RenderTable(lines) ==
    Join([i \in 1..Len(lines) |-> RenderLine(lines[i])], <<"\n">>) \o <<"\n">>

\* a counter file as populated: there with these lines, missing, unreadable
Table(lines) == [st |-> "ok", lines |-> lines]
TableMissing == [st |-> "ENOENT", lines |-> <<>>]
TableUnreadable == [st |-> "EIO", lines |-> <<>>]

TableFile(t) ==
    IF t.st = "ok" THEN File("ok", RenderTable(t.lines)) ELSE File(t.st, <<>>)

LineNames == {"RxErr", "HeaderOF", "TLP", "PoisonTLPBlocked", "FooBar"}
LineValues == {0, 7}

LineChoices ==
    { KV(n, v) : n \in LineNames, v \in LineValues }
      \cup { Raw(r) : r \in DOMAIN RawText }

CorrectableOrder ==
    <<"RxErr", "BadTLP", "BadDLLP", "Rollover", "Timeout", "NonFatalErr",
      "CorrIntErr", "HeaderOF">>

UncorrectableOrder ==
    <<"Undefined", "DLP", "SDES", "TLP", "FCP", "CmpltTO", "CmpltAbrt", "UnxCmplt",
      "RxOF", "MalfTLP", "ECRC", "UnsupReq", "ACSViol", "UncorrIntErr",
      "BlockedTLP", "AtomicOpBlocked", "TLPBlockedErr", "PoisonTLPBlocked">>

\* the counter files of the test fixtures: every known name in order, with
\* the values 1..8 (correctable), 9..26 (fatal), 27..44 (nonfatal)
FixtureLines(table) ==
    CASE table = "aer_dev_correctable" ->
           [i \in 1..8 |-> KV(CorrectableOrder[i], i)]
      [] table = "aer_dev_fatal" ->
           [i \in 1..18 |-> KV(UncorrectableOrder[i], 8 + i)]
      [] table = "aer_dev_nonfatal" ->
           [i \in 1..18 |-> KV(UncorrectableOrder[i], 26 + i)]

TableNames == {"aer_dev_correctable", "aer_dev_fatal", "aer_dev_nonfatal"}

\* the directory the single-file runs populate
TableDeviceName == DeviceName(PciDeviceLocation(0, 1, 0, 0))

OneDevice(name, files) ==
    [EmptySysfs EXCEPT !.pci = (name :> [files |-> files])]

\* one counter file with up to MaxLines lines is written into the directory
WriteTable ==
    /\ fstep = "boot"
    /\ \E table \in TableNames, n \in 0..MaxLines :
         \E lines \in [1..n -> LineChoices] :
            /\ fixture' = [table |-> table, lines |-> lines]
            /\ sysfs' = OneDevice(TableDeviceName,
                                  (table :> TableFile(Table(lines))))
    /\ fstep' = "mounted"
    /\ UNCHANGED <<call, ret, frames>>
    /\ UNCHANGED codecVars

\* one counter file of the test fixtures is written into the directory
WriteFixtureTable ==
    /\ fstep = "boot"
    /\ \E table \in TableNames :
         /\ fixture' = [table |-> table, lines |-> FixtureLines(table)]
         /\ sysfs' = OneDevice(TableDeviceName,
                               (table :> TableFile(Table(FixtureLines(table)))))
    /\ fstep' = "mounted"
    /\ UNCHANGED <<call, ret, frames>>
    /\ UNCHANGED codecVars

\* parseCorrectableAerCounters(deviceDir, &CorrectableAerCounters{})
CallParseCorrectable ==
    /\ fstep = "mounted"
    /\ call' = [op |-> "parseCorrectableAerCounters"]
    /\ ret' = parseCorrectableAerCounters(PciDeviceDir(sysfs, TableDeviceName),
                                          ZeroCorrectable)
    /\ fstep' = "returned"
    /\ UNCHANGED <<sysfs, fixture, frames>>
    /\ UNCHANGED codecVars

\* parseUncorrectableAerCounters(deviceDir, counterType, &UncorrectableAerCounters{})
CallParseUncorrectable ==
    /\ fstep = "mounted"
    /\ \E counterType \in {"fatal", "nonfatal"} :
         /\ call' = [op |-> "parseUncorrectableAerCounters", counterType |-> counterType]
         /\ ret' = parseUncorrectableAerCounters(PciDeviceDir(sysfs, TableDeviceName),
                                                 counterType, ZeroUncorrectable)
    /\ fstep' = "returned"
    /\ UNCHANGED <<sysfs, fixture, frames>>
    /\ UNCHANGED codecVars

TableNext ==
    WriteTable \/ WriteFixtureTable \/ CallParseCorrectable \/ CallParseUncorrectable

SpecCodec == LocationInit /\ [][CodecNext]_vars

SpecTable == TreeInit /\ [][TableNext]_vars

\* ---- single counter file: properties

WellFormedLines(lines) ==
    \A i \in 1..Len(lines) :
        lines[i].kind = "kv" \/ (lines[i].kind = "raw" /\ lines[i].name = "empty")

HasLine(lines, name) ==
    \E i \in 1..Len(lines) : lines[i].kind = "kv" /\ lines[i].name = name

\* the value the file gives a name: that of its last line for the name, 0
\* when it has none
ValueOf(lines, name) ==
    IF HasLine(lines, name)
    THEN LET last == CHOOSE i \in 1..Len(lines) :
                        /\ lines[i].kind = "kv" /\ lines[i].name = name
                        /\ \A j \in (i + 1)..Len(lines) :
                              ~(lines[j].kind = "kv" /\ lines[j].name = name)
         IN lines[last].val
    ELSE 0

\* C5: for a well-formed aer_dev_correctable file the parse succeeds, every
\* known name that appears gets the value of its line, every known name that
\* does not appear stays 0, and lines with other names change nothing.
C5_CorrectableDecoding ==
    (fstep = "returned" /\ call.op = "parseCorrectableAerCounters"
       /\ fixture.table = "aer_dev_correctable" /\ WellFormedLines(fixture.lines))
      => /\ ret.err = NoErr
         /\ \A n \in CorrectableNames : ret.counters[n] = ValueOf(fixture.lines, n)

\* a well-formed file with a known and an unknown name has been decoded
C5_Witness ==
    /\ fstep = "returned" /\ call.op = "parseCorrectableAerCounters"
    /\ fixture.table = "aer_dev_correctable" /\ WellFormedLines(fixture.lines)
    /\ \E i, j \in 1..Len(fixture.lines) :
          /\ fixture.lines[i] = KV("FooBar", 7)
          /\ fixture.lines[j] = KV("HeaderOF", 7)
          /\ i < j
    /\ ret.err = NoErr
    /\ ret.counters.HeaderOF = 7 /\ ret.counters.RxErr = 0

\* ---- one device directory with its six AER files

\* a scalar file as populated: missing, unreadable, blank, a decimal number,
\* or a text that is no decimal number
Scalar(kind, val) == [kind |-> kind, val |-> val]

JunkText == <<"x", "\n">>

ScalarFile(d) ==
    CASE d.kind = "missing" -> NoFile
      [] d.kind = "eio"     -> File("EIO", <<>>)
      [] d.kind = "blank"   -> File("ok", <<" ", "\n">>)
      [] d.kind = "num"     -> File("ok", DecDigits(d.val) \o <<"\n">>)
      [] d.kind = "junk"    -> File("ok", JunkText)

\* the contents a counter file of a device takes: the test fixture, a short
\* file with a name foreign to the table, a malformed file, none, unreadable
TableChoices(table) ==
    { Table(FixtureLines(table)),
      Table(<<KV("FooBar", 99),
              KV(IF table = "aer_dev_correctable" THEN "BadTLP" ELSE "DLP",
                 IF table = "aer_dev_fatal" THEN 5 ELSE 6)>>),
      Table(<<Raw("onefield")>>),
      TableMissing,
      TableUnreadable }

\* the contents a root-port total file of a device takes
ScalarChoices(n) ==
    { Scalar("missing", 0), Scalar("eio", 0), Scalar("blank", 0),
      Scalar("num", 0), Scalar("num", n), Scalar("junk", 0) }

AerFiles(fx) ==
    [aer_dev_correctable |-> TableFile(fx.cor),
     aer_dev_fatal |-> TableFile(fx.fatal),
     aer_dev_nonfatal |-> TableFile(fx.nonfatal),
     aer_rootport_total_err_cor |-> ScalarFile(fx.rpcor),
     aer_rootport_total_err_fatal |-> ScalarFile(fx.rpfatal),
     aer_rootport_total_err_nonfatal |-> ScalarFile(fx.rpnonfatal)]

AerLocations == { PciDeviceLocation(0, 1, 0, 0), PciDeviceLocation(0, 162, 0, 0) }

\* a device directory is populated with its six AER files
MountDevice ==
    /\ fstep = "boot"
    /\ \E l \in AerLocations,
          cor \in TableChoices("aer_dev_correctable"),
          fatal \in TableChoices("aer_dev_fatal"),
          nonfatal \in TableChoices("aer_dev_nonfatal"),
          rpcor \in ScalarChoices(1), rpfatal \in ScalarChoices(2),
          rpnonfatal \in ScalarChoices(3) :
         LET fx == [loc |-> l, cor |-> cor, fatal |-> fatal, nonfatal |-> nonfatal,
                    rpcor |-> rpcor, rpfatal |-> rpfatal, rpnonfatal |-> rpnonfatal]
         IN /\ fixture' = fx
            /\ sysfs' = OneDevice(DeviceName(l), AerFiles(fx))
    /\ fstep' = "mounted"
    /\ UNCHANGED <<call, ret, frames>>
    /\ UNCHANGED codecVars

\* device.AerCounters(fs) for the device of the populated directory
CallAerCounters ==
    /\ fstep = "mounted"
    /\ call' = [op |-> "AerCounters", Location |-> fixture.loc]
    /\ ret' = PciDeviceAerCounters(sysfs, [Location |-> fixture.loc])
    /\ fstep' = "returned"
    /\ UNCHANGED <<sysfs, fixture, frames>>
    /\ UNCHANGED codecVars

AerNext == MountDevice \/ CallAerCounters

SpecAer == TreeInit /\ [][AerNext]_vars

\* ---- per-device AER fetch: properties

AerReturned == fstep = "returned" /\ call.op = "AerCounters"

TablesExist ==
    fixture.cor.st # "ENOENT" /\ fixture.fatal.st # "ENOENT"
      /\ fixture.nonfatal.st # "ENOENT"

TableGood(t) == t.st = "ok" /\ WellFormedLines(t.lines)

TablesGood ==
    TableGood(fixture.cor) /\ TableGood(fixture.fatal) /\ TableGood(fixture.nonfatal)

RootPortFixtures == <<fixture.rpcor, fixture.rpfatal, fixture.rpnonfatal>>

\* no root-port total file fails: each is missing, blank or a decimal number
RootPortBenign ==
    \A i \in 1..3 : RootPortFixtures[i].kind \in {"missing", "blank", "num"}

\* C6: the three tables are kept separate: when the fetch of a device with
\* the three counter files returns counters, Correctable holds the values of
\* aer_dev_correctable, Fatal those of aer_dev_fatal and NonFatal those of
\* aer_dev_nonfatal, name by name; and it does return counters when the three
\* files are well formed and no root-port file fails.
C6_TablesSeparate ==
    (AerReturned /\ TablesExist) =>
       /\ ret.err = NoErr =>
            /\ ret.counters # NilCounters
            /\ \A n \in CorrectableNames :
                 ret.counters[1].Correctable[n] = ValueOf(fixture.cor.lines, n)
            /\ \A n \in UncorrectableNames :
                 /\ ret.counters[1].Fatal[n] = ValueOf(fixture.fatal.lines, n)
                 /\ ret.counters[1].NonFatal[n] = ValueOf(fixture.nonfatal.lines, n)
       /\ (TablesGood /\ RootPortBenign) => ret.err = NoErr

\* the fetch of the test fixture's device: 1..8, 9..26, 27..44
C6_Witness ==
    /\ AerReturned
    /\ fixture.cor = Table(FixtureLines("aer_dev_correctable"))
    /\ fixture.fatal = Table(FixtureLines("aer_dev_fatal"))
    /\ fixture.nonfatal = Table(FixtureLines("aer_dev_nonfatal"))
    /\ ret.err = NoErr
    /\ ret.counters[1].Correctable.RxErr = 1 /\ ret.counters[1].Correctable.HeaderOF = 8
    /\ ret.counters[1].Fatal.Undefined = 9 /\ ret.counters[1].Fatal.PoisonTLPBlocked = 26
    /\ ret.counters[1].NonFatal.Undefined = 27
    /\ ret.counters[1].NonFatal.PoisonTLPBlocked = 44

\* the pointer a root-port total field holds for a file populated as d
ExpectedPtr(d) == IF d.kind = "num" THEN PtrTo(d.val) ELSE NilPtr

\* C7: the three root-port totals are optional one by one: with the three
\* counter tables decoded, a file holding a decimal value gives its field that
\* value, a missing or blank file leaves its field absent without failing the
\* fetch or touching the other two, and any other read or parse failure fails
\* the fetch.
C7_RootPortPerField ==
    (AerReturned /\ TablesGood) =>
       /\ RootPortBenign =>
            /\ ret.err = NoErr
            /\ ret.counters[1].RootPortTotalErrCor = ExpectedPtr(fixture.rpcor)
            /\ ret.counters[1].RootPortTotalErrFatal = ExpectedPtr(fixture.rpfatal)
            /\ ret.counters[1].RootPortTotalErrNonFatal = ExpectedPtr(fixture.rpnonfatal)
       /\ ~RootPortBenign => (ret.err # NoErr /\ ret.counters = NilCounters)

\* one total present, one missing, one blank, and a total of 0 is present
C7_Witness ==
    /\ AerReturned /\ TablesGood
    /\ fixture.rpcor = Scalar("num", 0)
    /\ fixture.rpfatal.kind = "missing"
    /\ fixture.rpnonfatal.kind = "blank"
    /\ ret.err = NoErr
    /\ ret.counters[1].RootPortTotalErrCor = PtrTo(0)
    /\ ret.counters[1].RootPortTotalErrFatal = NilPtr
    /\ ret.counters[1].RootPortTotalErrNonFatal = NilPtr

\* some file of the device other than a missing aer_dev_correctable fails
OtherFailure ==
    \/ fixture.cor.st = "EIO" \/ (fixture.cor.st = "ok" /\ ~TableGood(fixture.cor))
    \/ ~TableGood(fixture.fatal) \/ ~TableGood(fixture.nonfatal)
    \/ \E i \in 1..3 : RootPortFixtures[i].kind \in {"eio", "junk"}

\* C8: presence policy (a): the fetch returns the absent marker, nil counters
\* and no error, when aer_dev_correctable does not exist, and an error for
\* every other read or decode failure.
C8_AbsentMarker ==
    AerReturned =>
       /\ fixture.cor.st = "ENOENT" => (ret.err = NoErr /\ ret.counters = NilCounters)
       /\ (fixture.cor.st # "ENOENT" /\ OtherFailure) => ret.err # NoErr

\* what the code does instead: a missing aer_dev_correctable is an error
MissingCorrectableIsError ==
    (AerReturned /\ fixture.cor.st = "ENOENT") =>
        (errorsIs(ret.err, "ENOENT") /\ ret.counters = NilCounters)

\* ---- the pcieport driver directory

PortNameSet == { PortNames[i] : i \in 1..Len(PortNames) }

\* the total a device's file holds when it holds a number: 1, 2, 3 for the
\* first name, 4, 5, 6 for the second, as in the test fixtures
PortValue(name, k) ==
    LET i == CHOOSE j \in 1..Len(PortNames) : PortNames[j] = name
    IN 3 * (i - 1) + k

\* an entry of the driver directory as populated: not there, a regular file,
\* or a bound device (a symlink) with its three total files
PortAbsent == [kind |-> "absent"]
PortRegular == [kind |-> "regular"]

PortChoices(name) ==
    { PortAbsent, PortRegular }
      \cup { [kind |-> "device", cor |-> c, fatal |-> f, nonfatal |-> n] :
               c \in { Scalar("missing", 0), Scalar("eio", 0), Scalar("blank", 0),
                       Scalar("num", PortValue(name, 1)), Scalar("junk", 0) },
               f \in { Scalar("missing", 0), Scalar("blank", 0),
                       Scalar("num", PortValue(name, 2)), Scalar("junk", 0) },
               n \in { Scalar("missing", 0), Scalar("num", PortValue(name, 3)) } }

PortEntry(e) ==
    IF e.kind = "regular" THEN [regular |-> TRUE, files |-> NoFiles]
    ELSE [regular |-> FALSE,
          files |-> [aer_rootport_total_err_cor |-> ScalarFile(e.cor),
                     aer_rootport_total_err_fatal |-> ScalarFile(e.fatal),
                     aer_rootport_total_err_nonfatal |-> ScalarFile(e.nonfatal)]]

\* the driver directory is populated
MountPcieport ==
    /\ fstep = "boot"
    /\ \E e1 \in PortChoices(PortNames[1]), e2 \in PortChoices(PortNames[2]),
          e3 \in PortChoices(PortNames[3]) :
         LET fx == (PortNames[1] :> e1) @@ (PortNames[2] :> e2) @@ (PortNames[3] :> e3)
         IN
         /\ fixture' = fx
         /\ sysfs' = [EmptySysfs EXCEPT !.pcieport =
                        [n \in { m \in PortNameSet : fx[m].kind # "absent" } |->
                            PortEntry(fx[n])]]
    /\ fstep' = "mounted"
    /\ UNCHANGED <<call, ret, frames>>
    /\ UNCHANGED codecVars

\* fs.RootPortAerCounters()
CallRootPortAerCounters ==
    /\ fstep = "mounted"
    /\ call' = [op |-> "RootPortAerCounters"]
    /\ ret' = RootPortAerCounters(sysfs)
    /\ fstep' = "returned"
    /\ UNCHANGED <<sysfs, fixture, frames>>
    /\ UNCHANGED codecVars

RootPortNext == MountPcieport \/ CallRootPortAerCounters

SpecRootPort == TreeInit /\ [][RootPortNext]_vars

\* ---- root-port aggregation: properties

RootPortReturned == fstep = "returned" /\ call.op = "RootPortAerCounters"

\* the non-regular entries that have the presence file
WithPresenceFile ==
    { n \in PortNameSet : fixture[n].kind = "device" /\ fixture[n].cor.kind # "missing" }

\* the total a file populated as d gives: its number, 0 when it is blank
ExpectedTotal(d) == IF d.kind = "num" THEN d.val ELSE 0

\* C9: on success the map's keys are exactly the non-regular entries of the
\* driver directory that have aer_rootport_total_err_cor, each mapped to the
\* totals of its own three files; a bound device without that file and a
\* regular file are no keys.  (It does succeed when every total file of those
\* entries is blank or a decimal number.)
C9_RootPortMap ==
    RootPortReturned =>
       /\ ret.err = NoErr =>
            /\ DOMAIN ret.val = WithPresenceFile
            /\ \A n \in WithPresenceFile :
                 ret.val[n] = [TotalErrCor |-> ExpectedTotal(fixture[n].cor),
                               TotalErrFatal |-> ExpectedTotal(fixture[n].fatal),
                               TotalErrNonFatal |-> ExpectedTotal(fixture[n].nonfatal)]
       /\ (\A n \in WithPresenceFile :
              /\ fixture[n].cor.kind \in {"blank", "num"}
              /\ fixture[n].fatal.kind \in {"blank", "num"}
              /\ fixture[n].nonfatal.kind \in {"blank", "num"}) => ret.err = NoErr

\* two bound devices, one with its totals and one without the presence file
\* (though with another total), and a regular file: the map has one key
C9_Witness ==
    /\ RootPortReturned
    /\ fixture["0000:00:02.1"].kind = "device"
    /\ fixture["0000:00:02.1"].cor.kind = "missing"
    /\ fixture["0000:00:02.1"].fatal.kind = "num"
    /\ fixture["0000:00:03.0"].kind = "device"
    /\ fixture["bind"].kind = "regular"
    /\ ret.err = NoErr
    /\ DOMAIN ret.val = {"0000:00:03.0"}
    /\ ret.val["0000:00:03.0"] =
         [TotalErrCor |-> 4, TotalErrFatal |-> 5, TotalErrNonFatal |-> 6]

\* ---- the network class directory

IfaceNames == {"eth0", "lo"}

\* a name that may be asked for and is never an interface
NoSuchIface == "wlan0"

\* the AER files of an interface's device directory
NetDeviceChoices ==
    { [cor |-> c, fatal |-> Table(FixtureLines("aer_dev_fatal")), nonfatal |-> n,
       rpcor |-> r, rpfatal |-> Scalar("missing", 0), rpnonfatal |-> Scalar("missing", 0)] :
        c \in { Table(FixtureLines("aer_dev_correctable")), TableMissing },
        n \in { Table(FixtureLines("aer_dev_nonfatal")), TableUnreadable },
        r \in { Scalar("missing", 0), Scalar("num", 1) } }

\* AER files lying in the interface's own directory, beside its device link
StrayFiles ==
    [cor |-> Table(<<KV("RxErr", 77)>>), fatal |-> Table(<<KV("DLP", 78)>>),
     nonfatal |-> Table(<<KV("TLP", 79)>>),
     rpcor |-> Scalar("missing", 0), rpfatal |-> Scalar("missing", 0),
     rpnonfatal |-> Scalar("missing", 0)]

\* an interface as populated: not there; there without a device directory;
\* there with one; in each case with or without stray files of its own; or
\* there with a device directory that os.Stat is denied
IfaceChoices ==
    { [kind |-> "absent"] }
      \cup { [kind |-> "iface", stray |-> st, device |-> FALSE] : st \in BOOLEAN }
      \cup { [kind |-> "denied", stray |-> FALSE, device |-> FALSE] }
      \cup { [kind |-> "iface", stray |-> st, device |-> TRUE, dev |-> d] :
               st \in BOOLEAN, d \in NetDeviceChoices }

IfaceEntry(e) ==
    [files  |-> IF e.stray THEN AerFiles(StrayFiles) ELSE NoFiles,
     device |-> IF e.device THEN [st |-> "ok", files |-> AerFiles(e.dev)]
                ELSE IF e.kind = "denied" THEN [st |-> "EACCES", files |-> NoFiles]
                ELSE [st |-> "ENOENT", files |-> NoFiles]]

\* class/net is populated
MountNet ==
    /\ fstep = "boot"
    /\ \E fx \in [IfaceNames -> IfaceChoices] :
         /\ fixture' = fx
         /\ sysfs' = [EmptySysfs EXCEPT !.net =
                        [i \in { j \in IfaceNames : fx[j].kind # "absent" } |->
                            IfaceEntry(fx[i])]]
    /\ fstep' = "mounted"
    /\ UNCHANGED <<call, ret, frames>>
    /\ UNCHANGED codecVars

\* fs.AerCountersByIface(iface)
CallAerCountersByIface ==
    /\ fstep = "mounted"
    /\ \E iface \in IfaceNames \cup {NoSuchIface} :
         /\ call' = [op |-> "AerCountersByIface", iface |-> iface]
         /\ ret' = AerCountersByIface(sysfs, iface)
    /\ fstep' = "returned"
    /\ UNCHANGED <<sysfs, fixture, frames>>
    /\ UNCHANGED codecVars

\* fs.AerCounters()
CallAllAerCounters ==
    /\ fstep = "mounted"
    /\ call' = [op |-> "AllAerCounters"]
    /\ ret' = AerCounters(sysfs)
    /\ fstep' = "returned"
    /\ UNCHANGED <<sysfs, fixture, frames>>
    /\ UNCHANGED codecVars

\* after fs.AerCounters() has returned, fs.AerCountersByIface(iface) on the
\* same tree; both results are kept
ThenAerCountersByIface ==
    /\ fstep = "returned"
    /\ call.op = "AllAerCounters"
    /\ \E iface \in IfaceNames \cup {NoSuchIface} :
         /\ call' = [op |-> "AllAerCounters;AerCountersByIface", iface |-> iface]
         /\ ret' = [bulk |-> ret, single |-> AerCountersByIface(sysfs, iface)]
    /\ fstep' = "compared"
    /\ UNCHANGED <<sysfs, fixture, frames>>
    /\ UNCHANGED codecVars

NetNext ==
    MountNet \/ CallAerCountersByIface \/ CallAllAerCounters \/ ThenAerCountersByIface

SpecNet == TreeInit /\ [][NetNext]_vars

\* ---- network bridge: properties

ByIfaceReturned == fstep = "returned" /\ call.op = "AerCountersByIface"

IsIface(i) == i \in IfaceNames /\ fixture[i].kind # "absent"

\* the interface has a device directory whose AER files all decode
DeviceDecodes(i) ==
    /\ fixture[i].device
    /\ TableGood(fixture[i].dev.cor) /\ TableGood(fixture[i].dev.fatal)
    /\ TableGood(fixture[i].dev.nonfatal)

\* C10: AerCountersByIface(iface) fails with the NetClass lookup's not-found
\* error, reading no counter file, when the interface does not validate;
\* otherwise it applies the AER parser to class/net/<iface>/device and
\* returns counters whose Name is the interface name.
C10_ByIface ==
    ByIfaceReturned =>
       /\ ~IsIface(call.iface) =>
            (ret.err = NewError("interface not found") /\ ret.reads = <<>>)
       /\ IsIface(call.iface) =>
            /\ \A k \in 1..Len(ret.reads) :
                 ret.reads[k][1] = <<netclassPath, call.iface, "device">>
            /\ DeviceDecodes(call.iface) =>
                 /\ ret.err = NoErr /\ ret.val # NilAerCounters
                 /\ ret.val[1].Name = call.iface
                 /\ \A n \in CorrectableNames :
                      ret.val[1].PciDeviceAerCounters.Correctable[n]
                        = ValueOf(fixture[call.iface].dev.cor.lines, n)

\* the part of C10 the code keeps: an interface that does not validate gives
\* the lookup's error and no read
ByIfaceValidatesFirst ==
    (ByIfaceReturned /\ ~IsIface(call.iface)) =>
        (ret.err = NewError("interface not found") /\ ret.reads = <<>>)

\* what the code reads instead: the interface's own directory
ByIfaceReadsIfaceDir ==
    (ByIfaceReturned /\ IsIface(call.iface)) =>
        /\ Len(ret.reads) >= 1
        /\ \A k \in 1..Len(ret.reads) : ret.reads[k][1] = <<netclassPath, call.iface>>

BulkReturned == fstep = "returned" /\ call.op = "AllAerCounters"

HasDeviceDir(i) == IsIface(i) /\ fixture[i].device

StatDenied(i) == IsIface(i) /\ fixture[i].kind = "denied"

\* the record the bulk form holds for an interface whose files all decode
ExpectedEntry(i) ==
    [PciDeviceAerCounters |->
        [Correctable |-> [n \in CorrectableNames |-> ValueOf(fixture[i].dev.cor.lines, n)],
         Fatal |-> [n \in UncorrectableNames |-> ValueOf(fixture[i].dev.fatal.lines, n)],
         NonFatal |-> [n \in UncorrectableNames |->
                         ValueOf(fixture[i].dev.nonfatal.lines, n)],
         RootPortTotalErrCor |-> ExpectedPtr(fixture[i].dev.rpcor),
         RootPortTotalErrFatal |-> ExpectedPtr(fixture[i].dev.rpfatal),
         RootPortTotalErrNonFatal |-> ExpectedPtr(fixture[i].dev.rpnonfatal)],
     Name |-> i]

\* C11: the bulk form skips every interface that has no device directory at
\* all: such an interface is no key of the result and does not fail the call,
\* which still returns the entries of all the other interfaces (whenever
\* their own directories decode); a stat of a device directory that fails
\* for another reason than not-found fails the whole call.
C11_BulkSkipsMissing ==
    BulkReturned =>
       /\ ret.err = NoErr =>
            \A i \in IfaceNames : ~HasDeviceDir(i) => i \notin DOMAIN ret.val[1]
       /\ ((\A i \in IfaceNames : ~StatDenied(i))
             /\ (\A i \in IfaceNames : HasDeviceDir(i) => DeviceDecodes(i)))
            => /\ ret.err = NoErr
               /\ DOMAIN ret.val[1] = { i \in IfaceNames : HasDeviceDir(i) }
               /\ \A i \in DOMAIN ret.val[1] : ret.val[1][i] = ExpectedEntry(i)
       /\ (\E i \in IfaceNames : StatDenied(i))
            => (ret.err # NoErr /\ ret.val = NilAllAerCounters)

\* the first interface has no device directory, the second has one: the call
\* succeeds with the second alone
C11_Witness ==
    /\ BulkReturned
    /\ IsIface("eth0") /\ ~HasDeviceDir("eth0") /\ ~StatDenied("eth0")
    /\ HasDeviceDir("lo") /\ DeviceDecodes("lo")
    /\ ret.err = NoErr
    /\ DOMAIN ret.val[1] = {"lo"}
    /\ ret.val[1]["lo"].Name = "lo"
    /\ ret.val[1]["lo"].PciDeviceAerCounters.Correctable.RxErr = 1

Compared == fstep = "compared" /\ call.op = "AllAerCounters;AerCountersByIface"

RECURSIVE ReadsUnder(_, _)
\* the reads of the log made under class/net/<iface>, in order
ReadsUnder(reads, iface) ==
    IF reads = <<>> THEN <<>>
    ELSE (IF reads[1][1][2] = iface THEN <<reads[1]>> ELSE <<>>)
           \o ReadsUnder(Tail(reads), iface)

\* C15: the bulk and the single form apply the same per-interface logic: on
\* an unchanged tree, for every interface that is a key of the map the bulk
\* form returned, the single form succeeds with a value equal to the map's
\* entry, read from the same files of the same directory; and every
\* interface the single form returns counters for is a key of the bulk map.
C15_BulkEqualsSingle ==
    (Compared /\ ret.bulk.err = NoErr) =>
       /\ call.iface \in DOMAIN ret.bulk.val[1] =>
            /\ ret.single.err = NoErr
            /\ ret.single.val # NilAerCounters
            /\ ret.single.val[1] = ret.bulk.val[1][call.iface]
            /\ ret.single.reads = ReadsUnder(ret.bulk.reads, call.iface)
       /\ (ret.single.err = NoErr /\ ret.single.val # NilAerCounters)
            => call.iface \in DOMAIN ret.bulk.val[1]

\* what the two forms do share: when both return a record for an interface,
\* its Name is the interface name in both
BothNameTheIface ==
    (Compared /\ ret.bulk.err = NoErr /\ call.iface \in DOMAIN ret.bulk.val[1]
       /\ ret.single.err = NoErr /\ ret.single.val # NilAerCounters)
      => (ret.single.val[1].Name = call.iface
            /\ ret.bulk.val[1][call.iface].Name = call.iface)

\* ---- the PCI device collection

MaxScanEntries == 3

FileNames(files) == { files[i] : i \in 1..Len(files) }

OptionalFiles == LinkFiles \o SriovFiles \o PowerFiles

\* what a healthy device's attribute files hold
GoodText ==
    [class |-> <<"0", "x", "0", "6", "0", "4", "0", "0", "\n">>,
     vendor |-> <<"0", "x", "1", "0", "2", "2", "\n">>,
     device |-> <<"0", "x", "1", "6", "3", "4", "\n">>,
     subsystem_vendor |-> <<"0", "x", "1", "7", "a", "a", "\n">>,
     subsystem_device |-> <<"0", "x", "5", "0", "9", "5", "\n">>,
     revision |-> <<"0", "x", "0", "0", "\n">>,
     max_link_speed |-> <<"8", ".", "0", " ", "G", "T", "/", "s", " ", "P", "C", "I", "e", "\n">>,
     max_link_width |-> <<"1", "6", "\n">>,
     current_link_speed |-> <<"2", ".", "5", " ", "G", "T", "/", "s", " ", "P", "C", "I", "e", "\n">>,
     current_link_width |-> <<"4", "\n">>,
     numa_node |-> <<"-", "1", "\n">>,
     sriov_drivers_autoprobe |-> <<"1", "\n">>,
     sriov_numvfs |-> <<"0", "\n">>,
     sriov_offset |-> <<"1", "\n">>,
     sriov_stride |-> <<"1", "\n">>,
     sriov_totalvfs |-> <<"8", "\n">>,
     sriov_vf_device |-> <<"1", "5", "2", "0", "\n">>,
     sriov_vf_total_msix |-> <<"0", "\n">>,
     d3cold_allowed |-> <<"1", "\n">>,
     power_state |-> <<"D", "0", "\n">>]

DevicesRoot ==
    <<".", ".", "/", ".", ".", "/", ".", ".", "/", "d", "e", "v", "i", "c", "e", "s">>
HostBridge == <<"p", "c", "i", "0", "0", "0", "0", ":", "0", "0">>
BridgeName == <<"0", "0", "0", "0", ":", "0", "0", ":", "0", "1", ".", "0">>
BadSegment == <<"z", "z">>
SignedSegment == <<"0", "0", "0", "0", ":", "0", "0", ":", "0", "1", ".", "-", "1">>

\* what an optional file of a device holds when it holds zero
ZeroText ==
    [max_link_speed |-> <<"0", ".", "0", " ", "G", "T", "/", "s", " ", "P", "C", "I", "e", "\n">>,
     max_link_width |-> <<"0", "\n">>,
     current_link_speed |-> <<"0", " ", "G", "T", "/", "s", " ", "P", "C", "I", "e", "\n">>,
     current_link_width |-> <<"0", "\n">>,
     numa_node |-> <<"0", "\n">>,
     sriov_drivers_autoprobe |-> <<"0", "\n">>,
     sriov_numvfs |-> <<"0", "\n">>,
     sriov_offset |-> <<"0", "\n">>,
     sriov_stride |-> <<"0", "\n">>,
     sriov_totalvfs |-> <<"0", "\n">>,
     sriov_vf_device |-> <<"0", "\n">>,
     sriov_vf_total_msix |-> <<"0", "\n">>,
     d3cold_allowed |-> <<"0", "\n">>,
     power_state |-> <<"0", "\n">>]

\* unsigned 32-bit values an identity file may hold, and a negative one:
\* 2^31 - 1 and 2^31 in base 16, 2^32 - 1 in base 10, -1
WideText ==
    [hexmax31 |-> <<"0", "x", "7", "f", "f", "f", "f", "f", "f", "f", "\n">>,
     hexmin32 |-> <<"0", "x", "8", "0", "0", "0", "0", "0", "0", "0", "\n">>,
     decmax32 |-> <<"4", "2", "9", "4", "9", "6", "7", "2", "9", "5", "\n">>,
     neg      |-> <<"-", "1", "\n">>]

\* An entry of the collection as populated: a healthy device (under the host
\* bridge or under a bridge device, with all its optional files or none), or a
\* healthy device with one thing wrong: the entry is no symlink, the device
\* or the parent segment of its target is no location or a location with a
\* sign in it, or one file is missing, unreadable ("eio"), blank, unparsable
\* ("junk"), "Unknown", zero, or (an identity file) one of WideText.
Healthy(parent) == [kind |-> "healthy", parent |-> parent]
Bare == [kind |-> "bare"]
LinkFault(what) == [kind |-> "link", what |-> what]
FileFault(file, as) == [kind |-> "file", file |-> file, as |-> as]

EntryChoices ==
    { Healthy("root"), Healthy("bridge"), Bare }
      \cup { LinkFault(w) : w \in {"notlink", "device", "colonform", "parent",
                                   "signedparent"} }
      \cup { FileFault(f, a) : f \in FileNames(IdentityFiles),
                               a \in {"missing", "eio", "junk", "blank"}
                                      \cup DOMAIN WideText }
      \cup { FileFault(f, a) : f \in FileNames(OptionalFiles),
                               a \in {"eio", "junk", "missing", "blank", "unknown",
                                      "zero"} }

\* the symlink of entry i populated as e
EntryLink(i, e) ==
    IF e.kind = "link" /\ e.what = "notlink" THEN [st |-> "EINVAL", target |-> <<>>]
    ELSE
      LET last   == IF e.kind = "link" /\ e.what = "device" THEN BadSegment
                    ELSE IF e.kind = "link" /\ e.what = "colonform"
                    THEN String(ScanLocations[i])
                    ELSE IF e.kind = "link" /\ e.what = "twin" THEN ScanNames[1]
                    ELSE ScanNames[i]
          parent == IF e.kind = "link" /\ e.what = "parent" THEN <<BadSegment>>
                    ELSE IF e.kind = "link" /\ e.what = "signedparent"
                    THEN <<SignedSegment>>
                    ELSE IF e.kind = "healthy" /\ e.parent = "bridge" THEN <<BridgeName>>
                    ELSE <<>>
      IN [st |-> "ok",
          target |-> Join(<<DevicesRoot, HostBridge>> \o parent \o <<last>>, <<"/">>)]

\* the attribute files of an entry populated as e
EntryFiles(e) ==
    [f \in FileNames(IdentityFiles) \cup FileNames(OptionalFiles) |->
        IF e.kind = "bare" /\ f \in FileNames(OptionalFiles) THEN NoFile
        ELSE IF e.kind = "file" /\ e.file = f
        THEN CASE e.as = "missing" -> NoFile
               [] e.as = "eio"     -> File("EIO", <<>>)
               [] e.as = "junk"    -> File("ok", JunkText)
               [] e.as = "blank"   -> File("ok", <<" ", "\n">>)
               [] e.as = "unknown" -> File("ok", UnknownText \o <<"\n">>)
               [] e.as = "zero"    -> File("ok", ZeroText[f])
               [] OTHER            -> File("ok", WideText[e.as])
        ELSE File("ok", GoodText[f])]

\* the tree with the collection populated from the entries
ScanTree(entries) ==
    [EmptySysfs EXCEPT !.pci =
        [name \in { ScanNames[i] : i \in 1..Len(entries) } |->
            LET i == CHOOSE j \in 1..Len(entries) : ScanNames[j] = name
            IN [link |-> EntryLink(i, entries[i]), files |-> EntryFiles(entries[i])]]]

\* what the entries around the one under study are populated as
CommonChoices ==
    { Healthy("root"), Healthy("bridge"), Bare,
      LinkFault("notlink"), FileFault("revision", "junk") }

\* up to MaxScanEntries entries are created in the collection: one of them,
\* at any place, is populated in any of the ways above, the others in the
\* common ways (an entry is parsed from its own link and directory alone)
MountPciDevices ==
    /\ fstep = "boot"
    /\ \E n \in 1..MaxScanEntries, k \in 1..MaxScanEntries :
         /\ k <= n
         /\ \E e \in EntryChoices, others \in [(1..n) \ {k} -> CommonChoices] :
              LET entries == [i \in 1..n |-> IF i = k THEN e ELSE others[i]]
              IN /\ fixture' = [entries |-> entries]
                 /\ sysfs' = ScanTree(entries)
    /\ fstep' = "mounted"
    /\ UNCHANGED <<call, ret, frames>>
    /\ UNCHANGED codecVars

\* fs.PciDevices()
CallPciDevices ==
    /\ fstep = "mounted"
    /\ call' = [op |-> "PciDevices"]
    /\ ret' = PciDevices(sysfs)
    /\ fstep' = "returned"
    /\ UNCHANGED <<sysfs, fixture, frames>>
    /\ UNCHANGED codecVars

ScanNext == MountPciDevices \/ CallPciDevices

SpecScan == TreeInit /\ [][ScanNext]_vars

\* ---- device scan: properties

ScanReturned == fstep = "returned" /\ call.op = "PciDevices"

\* the entry fails in the scan: no symlink, a device or parent segment that
\* parsePciDeviceLocation rejects, an identity file missing, unreadable or
\* holding what ParseInt(_, 0, 32) rejects, an optional file unreadable or
\* holding an unparsable value
EntryFails(e) ==
    \/ e.kind = "link" /\ e.what # "signedparent"
    \/ /\ e.kind = "file"
       /\ \/ e.file \in FileNames(IdentityFiles) /\ e.as \notin {"hexmax31", "neg"}
          \/ e.as = "eio"
          \/ e.as = "junk" /\ e.file # "power_state"
          \/ e.as = "unknown"
               /\ e.file \in FileNames(SriovFiles) \cup {"d3cold_allowed"}

ScanSucceedsOtherwise ==
    (ScanReturned /\ \A i \in DOMAIN fixture.entries : ~EntryFails(fixture.entries[i]))
       => /\ ret.err = NoErr
          /\ DOMAIN ret.val[1] = { String(ScanLocations[i]) : i \in DOMAIN fixture.entries }
          /\ \A i \in DOMAIN fixture.entries :
               LET d == ret.val[1][String(ScanLocations[i])]
                   e == fixture.entries[i]
               IN /\ d.Location = ScanLocations[i]
                  /\ (e.kind # "file" \/ e.file # "class") => d.Class = Uint32(394240)
                  /\ (e = Healthy("root")) => d.ParentLocation = NilPtr
                  /\ (e = Healthy("bridge")) =>
                        (d.ParentLocation = PtrTo(PciDeviceLocation(0, 0, 1, 0))
                           /\ d.MaxLinkSpeed = PtrTo([neg |-> FALSE, mant |-> 8, scale |-> 0])
                           /\ d.CurrentLinkSpeed =
                                 PtrTo([neg |-> FALSE, mant |-> 25, scale |-> 1])
                           /\ d.NumaNode = PtrTo(0 - 1)
                           /\ d.SriovVfDevice = PtrTo(5408)
                           /\ d.PowerState = PtrTo(<<"D", "0">>))
                  /\ (e = Bare) => (d.MaxLinkSpeed = NilPtr /\ d.PowerState = NilPtr)

\* the attribute of a device record that an optional file fills
AttrOf(d, f) ==
    CASE f = "max_link_speed" -> d.MaxLinkSpeed
      [] f = "max_link_width" -> d.MaxLinkWidth
      [] f = "current_link_speed" -> d.CurrentLinkSpeed
      [] f = "current_link_width" -> d.CurrentLinkWidth
      [] f = "numa_node" -> d.NumaNode
      [] f = "sriov_drivers_autoprobe" -> d.SriovDriversAutoprobe
      [] f = "sriov_numvfs" -> d.SriovNumvfs
      [] f = "sriov_offset" -> d.SriovOffset
      [] f = "sriov_stride" -> d.SriovStride
      [] f = "sriov_totalvfs" -> d.SriovTotalvfs
      [] f = "sriov_vf_device" -> d.SriovVfDevice
      [] f = "sriov_vf_total_msix" -> d.SriovVfTotalMsix
      [] f = "d3cold_allowed" -> d.D3coldAllowed
      [] f = "power_state" -> d.PowerState

Number(mant, scale) == [neg |-> FALSE, mant |-> mant, scale |-> scale]

\* the values that the texts of GoodText and of ZeroText denote
GoodValue ==
    [max_link_speed |-> Number(8, 0), max_link_width |-> Number(16, 0),
     current_link_speed |-> Number(25, 1), current_link_width |-> Number(4, 0),
     numa_node |-> 0 - 1,
     sriov_drivers_autoprobe |-> TRUE, sriov_numvfs |-> 0, sriov_offset |-> 1,
     sriov_stride |-> 1, sriov_totalvfs |-> 8, sriov_vf_device |-> 5408,
     sriov_vf_total_msix |-> 0,
     d3cold_allowed |-> TRUE, power_state |-> <<"D", "0">>]

ZeroValue ==
    [max_link_speed |-> Number(0, 0), max_link_width |-> Number(0, 0),
     current_link_speed |-> Number(0, 0), current_link_width |-> Number(0, 0),
     numa_node |-> 0,
     sriov_drivers_autoprobe |-> FALSE, sriov_numvfs |-> 0, sriov_offset |-> 0,
     sriov_stride |-> 0, sriov_totalvfs |-> 0, sriov_vf_device |-> 0,
     sriov_vf_total_msix |-> 0,
     d3cold_allowed |-> FALSE, power_state |-> <<"0">>]

\* what the optional file f of an entry populated as e holds: "none" when it
\* does not exist, "blank", "unknown", or the value its text denotes
Holds(e, f) ==
    IF e.kind = "bare" THEN [as |-> "none"]
    ELSE IF e.kind = "file" /\ e.file = f
    THEN CASE e.as = "missing" -> [as |-> "none"]
           [] e.as = "blank"   -> [as |-> "blank"]
           [] e.as = "unknown" -> [as |-> "unknown", val |-> UnknownText]
           [] e.as = "zero"    -> [as |-> "value", val |-> ZeroValue[f]]
           [] e.as = "junk"    -> [as |-> "value", val |-> <<"x">>]
           [] OTHER            -> [as |-> "eio"]
    ELSE [as |-> "value", val |-> GoodValue[f]]

\* C13: absence stays distinguishable from zero: after a successful parse each
\* optional attribute is unset exactly when its file did not exist or was
\* blank (or, in the link/NUMA group, began with "Unknown") and holds the
\* parsed value otherwise, a file holding 0 giving a present 0 (false for
\* the booleans); and an optional file whose read fails otherwise than by
\* not-found fails the parse.
C13_OptionalPresence ==
    ScanReturned =>
       /\ ret.err = NoErr =>
            \A i \in DOMAIN fixture.entries : \A f \in FileNames(OptionalFiles) :
               LET attr == AttrOf(ret.val[1][String(ScanLocations[i])], f)
                   h    == Holds(fixture.entries[i], f)
                   unset == \/ h.as \in {"none", "blank"}
                            \/ h.as = "unknown" /\ f \in FileNames(LinkFiles)
               IN /\ (attr = NilPtr) <=> unset
                  /\ ~unset => attr = PtrTo(h.val)
       /\ (\E i \in DOMAIN fixture.entries :
              \E f \in FileNames(OptionalFiles) : Holds(fixture.entries[i], f).as = "eio")
            => ret.err # NoErr

\* a device whose d3cold_allowed holds 0 beside one without optional files:
\* the first has the flag present and false, the second has it unset
C13_Witness ==
    /\ ScanReturned
    /\ Len(fixture.entries) = 2
    /\ fixture.entries[1] = FileFault("d3cold_allowed", "zero")
    /\ fixture.entries[2] = Bare
    /\ ret.err = NoErr
    /\ ret.val[1][String(ScanLocations[1])].D3coldAllowed = PtrTo(FALSE)
    /\ ret.val[1][String(ScanLocations[1])].SriovNumvfs = PtrTo(0)
    /\ ret.val[1][String(ScanLocations[2])].D3coldAllowed = NilPtr
    /\ ret.val[1][String(ScanLocations[2])].SriovNumvfs = NilPtr

\* ------------------------------------------------ calls followed read by read

\* a faulty order: the non-fatal table is read before the fatal one
AerReadOrder_NonFatalFirst ==
    <<"aer_dev_correctable", "aer_dev_nonfatal", "aer_dev_fatal",
      "aer_rootport_total_err_cor", "aer_rootport_total_err_fatal",
      "aer_rootport_total_err_nonfatal">>

\* the six files of a per-device AER fetch, in the order parseAerCounters and
\* parseRootPortAerCounters read them
AerReadOrder ==
    <<"aer_dev_correctable", "aer_dev_fatal", "aer_dev_nonfatal",
      "aer_rootport_total_err_cor", "aer_rootport_total_err_fatal",
      "aer_rootport_total_err_nonfatal">>

\* the locals of device.AerCounters(fs) on entry (counters :=
\* PciDeviceAerCounters{}); reads and seen log each read and the file it found
NewAerCall(l) ==
    [op |-> "AerCounters", Location |-> l, pc |-> 1, counters |-> ZeroAerCounters,
     reads |-> <<>>, seen |-> <<>>, done |-> FALSE, err |-> NoErr, val |-> NilCounters]

\* return val, err
Return(fr, err, val) == [fr EXCEPT !.done = TRUE, !.err = err, !.val = val]

\* the call that reads the named file, and what the code does with its
\* result: the part of the record is set, or the fetch returns the error
AerPart(dir, name, at) ==
    CASE name = "aer_dev_correctable" ->
           Bind(parseCorrectableAerCounters(dir, at.counters.Correctable), LAMBDA r :
             IF r.err # NoErr THEN Return(at, r.err, NilCounters)
             ELSE [at EXCEPT !.counters.Correctable = r.counters])
      [] name = "aer_dev_fatal" ->
           Bind(parseUncorrectableAerCounters(dir, "fatal", at.counters.Fatal),
                LAMBDA r :
             IF r.err # NoErr THEN Return(at, r.err, NilCounters)
             ELSE [at EXCEPT !.counters.Fatal = r.counters])
      [] name = "aer_dev_nonfatal" ->
           Bind(parseUncorrectableAerCounters(dir, "nonfatal", at.counters.NonFatal),
                LAMBDA r :
             IF r.err # NoErr THEN Return(at, r.err, NilCounters)
             ELSE [at EXCEPT !.counters.NonFatal = r.counters])
      [] name = "aer_rootport_total_err_cor" ->
           Bind(RootPortField(dir, name), LAMBDA r :
             IF r.err # NoErr THEN Return(at, r.err, NilCounters)
             ELSE [at EXCEPT !.counters.RootPortTotalErrCor = r.val])
      [] name = "aer_rootport_total_err_fatal" ->
           Bind(RootPortField(dir, name), LAMBDA r :
             IF r.err # NoErr THEN Return(at, r.err, NilCounters)
             ELSE [at EXCEPT !.counters.RootPortTotalErrFatal = r.val])
      [] name = "aer_rootport_total_err_nonfatal" ->
           Bind(RootPortField(dir, name), LAMBDA r :
             IF r.err # NoErr THEN Return(at, r.err, NilCounters)
             ELSE [at EXCEPT !.counters.RootPortTotalErrNonFatal = r.val])

\* the next read of a per-device AER fetch; after the last one the fetch
\* returns &counters
AerRead(fs, fr) ==
    Bind(AerPart(PciDeviceDir(fs, DeviceName(fr.Location)), AerReadOrder[fr.pc],
                 [fr EXCEPT !.pc = @ + 1,
                            !.reads = Append(@, ReadOf(PciDeviceDir(fs, DeviceName(fr.Location)),
                                                       AerReadOrder[fr.pc])),
                            !.seen = Append(@, Lookup(PciDeviceDir(fs, DeviceName(fr.Location)),
                                                      AerReadOrder[fr.pc]))]),
         LAMBDA next :
           IF next.done \/ fr.pc < Len(AerReadOrder) THEN next
           ELSE Return(next, NoErr, PtrTo(next.counters)))

\* the attribute files of the four loops of parsePciDevice, in order
AttributeFiles == IdentityFiles \o LinkFiles \o SriovFiles \o PowerFiles

\* the body of the loop that reads attribute file number j
AttributeValue(dir, j, device) ==
    IF j <= Len(IdentityFiles) THEN IdentityValue(dir, AttributeFiles[j], device)
    ELSE IF j <= Len(IdentityFiles) + Len(LinkFiles)
    THEN LinkValue(dir, AttributeFiles[j], device)
    ELSE IF j <= Len(IdentityFiles) + Len(LinkFiles) + Len(SriovFiles)
    THEN SriovValue(dir, AttributeFiles[j], device)
    ELSE PowerValue(dir, AttributeFiles[j], device)

\* the locals of fs.PciDevices() on entry
NewScanCall ==
    [op |-> "PciDevices", pc |-> "ReadDir", dirs |-> <<>>, j |-> 0, device |-> NilPtr,
     pciDevs |-> <<>>, done |-> FALSE, err |-> NoErr, val |-> NilPciDevices]

\* the next step of fs.PciDevices(): the enumeration, the link of the next
\* entry, or one attribute file of the entry at hand
ScanRead(fs, fr) ==
    CASE fr.pc = "ReadDir" ->
           [fr EXCEPT !.pc = "entry", !.dirs = Present(ScanNames, fs.pci)]
      [] fr.pc = "entry" ->
           IF fr.dirs = <<>> THEN Return(fr, NoErr, PtrTo(fr.pciDevs))
           ELSE
             Bind(Readlink(fs.pci[fr.dirs[1]]), LAMBDA realPath :
               IF realPath.err # NoErr
               THEN Return(fr, Wrap("failed to readlink", realPath.err), NilPciDevices)
               ELSE Bind(DeviceOfLink(realPath.val), LAMBDA device :
                      IF device.err # NoErr THEN Return(fr, device.err, NilPciDevices)
                      ELSE [fr EXCEPT !.pc = "file", !.j = 1,
                                      !.device = PtrTo(device.val)]))
      [] fr.pc = "file" ->
           Bind(AttributeValue(PciDeviceDir(fs, fr.dirs[1]), fr.j, fr.device[1]),
                LAMBDA d :
             IF d.err # NoErr THEN Return(fr, d.err, NilPciDevices)
             ELSE IF fr.j < Len(AttributeFiles)
             THEN [fr EXCEPT !.j = @ + 1, !.device = PtrTo(d.val)]
             ELSE [fr EXCEPT !.pc = "entry", !.j = 0, !.device = NilPtr,
                             !.dirs = Tail(@),
                             !.pciDevs = (Name(d.val) :> d.val) @@ @])

\* a faulty variant in which the value being built is one package-level
\* variable: a caller goes on from what the first caller has put in it
Locals_Shared(fr, self) ==
    IF fr[self].op # fr[1].op THEN fr[self]
    ELSE IF fr[self].op = "AerCounters"
    THEN [fr[self] EXCEPT !.counters = fr[1].counters]
    ELSE [fr[self] EXCEPT !.pciDevs = fr[1].pciDevs]

\* the local variables of caller self: each call has its own
Locals(fr, self) == fr[self]

\* ---- several callers on one tree

MaxCallers == 2

\* what a device of the collection is populated as: its entry and its six
\* AER files
DeviceKinds ==
    { [entry |-> Healthy("bridge"),
       aer |-> [cor |-> Table(FixtureLines("aer_dev_correctable")),
                fatal |-> Table(FixtureLines("aer_dev_fatal")),
                nonfatal |-> Table(FixtureLines("aer_dev_nonfatal")),
                rpcor |-> Scalar("num", 1), rpfatal |-> Scalar("num", 2),
                rpnonfatal |-> Scalar("num", 3)]],
      [entry |-> Bare,
       aer |-> [cor |-> Table(<<KV("FooBar", 99), KV("BadTLP", 6)>>),
                fatal |-> Table(<<KV("DLP", 5)>>),
                nonfatal |-> Table(<<KV("TLP", 4), KV("TLP", 3)>>),
                rpcor |-> Scalar("missing", 0), rpfatal |-> Scalar("num", 0),
                rpnonfatal |-> Scalar("blank", 0)]],
      [entry |-> FileFault("numa_node", "junk"),
       aer |-> [cor |-> Table(<<KV("RxErr", 7)>>),
                fatal |-> Table(<<Raw("onefield")>>),
                nonfatal |-> Table(FixtureLines("aer_dev_nonfatal")),
                rpcor |-> Scalar("missing", 0), rpfatal |-> Scalar("missing", 0),
                rpnonfatal |-> Scalar("missing", 0)]] }

\* the tree with the collection populated from the devices: each directory
\* holds the attribute files and the AER files
CollectionTree(devices) ==
    [EmptySysfs EXCEPT !.pci =
        [name \in { ScanNames[i] : i \in 1..Len(devices) } |->
            LET i == CHOOSE j \in 1..Len(devices) : ScanNames[j] = name
            IN [link |-> EntryLink(i, devices[i].entry),
                files |-> AerFiles(devices[i].aer) @@ EntryFiles(devices[i].entry)]]]

\* the collection is populated with two devices
MountCollection ==
    /\ fstep = "boot"
    /\ \E devices \in [1..2 -> DeviceKinds] :
         /\ fixture' = [devices |-> devices]
         /\ sysfs' = CollectionTree(devices)
    /\ fstep' = "mounted"
    /\ UNCHANGED <<call, ret, frames>>
    /\ UNCHANGED codecVars

\* the calls a caller may make
CallChoices == {NewScanCall} \cup { NewAerCall(ScanLocations[i]) : i \in 1..2 }

\* up to MaxCallers callers enter their calls
EnterCalls ==
    /\ fstep = "mounted"
    /\ \E n \in 1..MaxCallers :
         \E entered \in [1..n -> CallChoices] :
            /\ frames' = entered
            /\ call' = [op |-> "concurrent", callers |-> n]
    /\ fstep' = "running"
    /\ UNCHANGED <<sysfs, fixture, ret>>
    /\ UNCHANGED codecVars

\* a caller in device.AerCounters(fs) makes its next read
AerCountersRead ==
    /\ fstep = "running"
    /\ \E self \in DOMAIN frames :
         /\ frames[self].op = "AerCounters"
         /\ ~frames[self].done
         /\ frames' = [frames EXCEPT ![self] = AerRead(sysfs, Locals(frames, self))]
    /\ UNCHANGED <<sysfs, fixture, call, ret, fstep>>
    /\ UNCHANGED codecVars

\* a caller in fs.PciDevices() makes its next step
PciDevicesRead ==
    /\ fstep = "running"
    /\ \E self \in DOMAIN frames :
         /\ frames[self].op = "PciDevices"
         /\ ~frames[self].done
         /\ frames' = [frames EXCEPT ![self] = ScanRead(sysfs, Locals(frames, self))]
    /\ UNCHANGED <<sysfs, fixture, call, ret, fstep>>
    /\ UNCHANGED codecVars

CallersNext == MountCollection \/ EnterCalls \/ AerCountersRead \/ PciDevicesRead

SpecCallers == TreeInit /\ [][CallersNext]_vars

\* ---- several callers: properties

\* what the call of a frame returns when it runs alone on the tree
Alone(fs, fr) ==
    IF fr.op = "AerCounters"
    THEN Bind(PciDeviceAerCounters(fs, [Location |-> fr.Location]), LAMBDA r :
           [err |-> r.err, val |-> r.counters])
    ELSE PciDevices(fs)

\* C14: no shared mutable state: with several callers in any of the
\* operations on an unchanged tree, their reads interleaved in any way, every
\* call that has returned holds the result the same call gives when it runs
\* alone, and goes on holding it whatever the other calls do.
C14_CallsIndependent ==
    (fstep = "running" /\ call.op = "concurrent") =>
        \A self \in DOMAIN frames :
            frames[self].done =>
                Bind(Alone(sysfs, frames[self]), LAMBDA alone :
                  frames[self].err = alone.err /\ frames[self].val = alone.val)

\* a fetch of the second device has returned its counters while a scan is in
\* the middle of an entry and has one device in its registry already
C14_Witness ==
    /\ fstep = "running" /\ Len(frames) = 2
    /\ frames[1].op = "PciDevices" /\ ~frames[1].done
    /\ frames[1].pc = "file" /\ frames[1].j = 7 /\ Len(frames[1].dirs) = 1
    /\ DOMAIN frames[1].pciDevs = {String(ScanLocations[1])}
    /\ frames[2].op = "AerCounters" /\ frames[2].done
    /\ frames[2].Location = ScanLocations[2]
    /\ frames[2].err = NoErr
    /\ frames[2].val[1].Correctable.BadTLP = 6
    /\ frames[2].val[1].RootPortTotalErrFatal = PtrTo(0)

\* ---- one fetch on a tree that changes between its reads

MaxRewrites == 2

\* a caller enters device.AerCounters(fs) for a device of the collection
EnterFetch ==
    /\ fstep = "mounted"
    /\ \E i \in 1..2 :
         /\ frames' = <<NewAerCall(ScanLocations[i])>>
         /\ call' = [op |-> "AerCounters", Location |-> ScanLocations[i]]
    /\ fixture' = [devices |-> fixture.devices, rewrites |-> 0]
    /\ fstep' = "running"
    /\ UNCHANGED <<sysfs, ret>>
    /\ UNCHANGED codecVars

\* the kernel (or anyone) replaces one AER file of the device while the
\* fetch is under way: the file takes the contents it has in some device kind
Rewrite ==
    /\ fstep = "running" /\ call.op = "AerCounters"
    /\ fixture.rewrites < MaxRewrites
    /\ \E k \in DeviceKinds, i \in 1..Len(AerReadOrder) :
         LET name == AerReadOrder[i]
             dev  == DeviceName(call.Location)
         IN /\ sysfs.pci[dev].files[name] # AerFiles(k.aer)[name]
            /\ sysfs' = [sysfs EXCEPT !.pci[dev].files[name] = AerFiles(k.aer)[name]]
    /\ fixture' = [fixture EXCEPT !.rewrites = @ + 1]
    /\ UNCHANGED <<call, ret, fstep, frames>>
    /\ UNCHANGED codecVars

SkewNext == MountCollection \/ EnterFetch \/ AerCountersRead \/ Rewrite

SpecSkew == TreeInit /\ [][SkewNext]_vars

\* ---- one fetch on a changing tree: properties

\* a directory that holds just this file
OnlyFile(name, f) == [path |-> <<>>, notdir |-> FALSE, files |-> (name :> f)]

\* what file number k of the fetch decodes to, given the file as it was read
Decoded(k, f) ==
    CASE k = 1 -> Bind(parseCorrectableAerCounters(OnlyFile("aer_dev_correctable", f),
                                                   ZeroAerCounters.Correctable),
                       LAMBDA r : [err |-> r.err, val |-> r.counters])
      [] k = 2 -> Bind(parseUncorrectableAerCounters(OnlyFile("aer_dev_fatal", f),
                                                     "fatal", ZeroAerCounters.Fatal),
                       LAMBDA r : [err |-> r.err, val |-> r.counters])
      [] k = 3 -> Bind(parseUncorrectableAerCounters(OnlyFile("aer_dev_nonfatal", f),
                                                     "nonfatal", ZeroAerCounters.NonFatal),
                       LAMBDA r : [err |-> r.err, val |-> r.counters])
      [] k = 4 -> RootPortField(OnlyFile("aer_rootport_total_err_cor", f),
                                "aer_rootport_total_err_cor")
      [] k = 5 -> RootPortField(OnlyFile("aer_rootport_total_err_fatal", f),
                                "aer_rootport_total_err_fatal")
      [] k = 6 -> RootPortField(OnlyFile("aer_rootport_total_err_nonfatal", f),
                                "aer_rootport_total_err_nonfatal")

\* the record whose six parts are these
Assembled(parts) ==
    [Correctable |-> parts[1], Fatal |-> parts[2], NonFatal |-> parts[3],
     RootPortTotalErrCor |-> parts[4], RootPortTotalErrFatal |-> parts[5],
     RootPortTotalErrNonFatal |-> parts[6]]

\* C20: read discipline of a per-device AER fetch, on a tree that may change
\* between the reads: the reads made so far are the first files of the fixed
\* order correctable, fatal, non-fatal, root-port correctable, root-port
\* fatal, root-port non-fatal, each in the device's directory and each once;
\* every read but the last decoded; a fetch that failed failed on its last
\* read and returns no record; a fetch that succeeded made all six reads and
\* each part of its record is the decode of the file as it was when read.
C20_ReadDiscipline ==
    (fstep = "running" /\ call.op = "AerCounters") =>
        Bind(frames[1], LAMBDA fr :
          Bind(Len(fr.reads), LAMBDA n :
            /\ n <= 6 /\ Len(fr.seen) = n
            /\ \A k \in 1..n :
                 fr.reads[k] =
                   <<<<pciDevicesPath, DeviceName(call.Location)>>,
                     <<"aer_dev_correctable", "aer_dev_fatal", "aer_dev_nonfatal",
                       "aer_rootport_total_err_cor", "aer_rootport_total_err_fatal",
                       "aer_rootport_total_err_nonfatal">>[k]>>
            /\ \A k \in 1..(n - 1) : Decoded(k, fr.seen[k]).err = NoErr
            /\ ~fr.done => (n = 0 \/ Decoded(n, fr.seen[n]).err = NoErr)
            /\ (fr.done /\ fr.err # NoErr) =>
                 /\ n >= 1
                 /\ Decoded(n, fr.seen[n]).err = fr.err
                 /\ fr.val = NilCounters
            /\ (fr.done /\ fr.err = NoErr) =>
                 /\ n = 6
                 /\ fr.val = PtrTo(Assembled([k \in 1..6 |->
                                                Decoded(k, fr.seen[k]).val]))))

\* a fetch has returned a record that is neither the record of the tree as it
\* was when the fetch began nor that of the tree as it is now
C20_Witness ==
    /\ fstep = "running" /\ call.op = "AerCounters"
    /\ frames[1].done /\ frames[1].err = NoErr
    /\ fixture.rewrites >= 1
    /\ Alone(sysfs, frames[1]).err = NoErr
    /\ frames[1].val # Alone(sysfs, frames[1]).val
    /\ Alone(CollectionTree(fixture.devices), frames[1]).err = NoErr
    /\ frames[1].val # Alone(CollectionTree(fixture.devices), frames[1]).val

\* ---- single counter file: malformed and duplicate lines

\* the call has parsed the file that was written
ParsedWrittenTable ==
    /\ fstep = "returned"
    /\ \/ /\ call.op = "parseCorrectableAerCounters"
          /\ fixture.table = "aer_dev_correctable"
       \/ /\ call.op = "parseUncorrectableAerCounters"
          /\ fixture.table = AerDevFile(call.counterType)

\* a non-empty line that is not a name and a decimal unsigned value: only
\* white space, one field, three fields, a value that is no such number
MalformedLine(l) == l.kind = "raw" /\ l.name # "empty"

\* line i has only white space
WhiteLine(lines, i) == lines[i].kind = "raw" /\ lines[i].name \in {"empty", "blank"}

\* C16: in any of the three counter tables, a non-empty line that does not
\* split into exactly two fields (a line of only white space included), or
\* whose second field is no decimal unsigned 64-bit value, fails the parse,
\* whatever the lines before it hold.
C16_MalformedLineFails ==
    (ParsedWrittenTable /\ \E i \in 1..Len(fixture.lines) : MalformedLine(fixture.lines[i]))
      => ret.err # NoErr

\* the part of C16 that the code keeps: the parse fails on a malformed line,
\* unless the line has only white space and stands among the leading or the
\* trailing white lines of aer_dev_correctable
MalformedLineFailsInside ==
    (/\ ParsedWrittenTable
     /\ \E i \in 1..Len(fixture.lines) :
          /\ MalformedLine(fixture.lines[i])
          /\ \/ fixture.lines[i].name # "blank"
             \/ fixture.table # "aer_dev_correctable"
             \/ /\ \E j \in 1..(i - 1) : ~WhiteLine(fixture.lines, j)
                /\ \E j \in (i + 1)..Len(fixture.lines) : ~WhiteLine(fixture.lines, j))
      => ret.err # NoErr

\* C17: last write wins: after a successful parse of a counter file that has
\* several lines for one known name, the field holds the value of the last
\* of them in file order, and every other field holds what the file gives
\* its own name.
C17_LastWriteWins ==
    (/\ ParsedWrittenTable /\ ret.err = NoErr
     /\ \E i, j \in 1..Len(fixture.lines) :
          /\ i < j
          /\ fixture.lines[i].kind = "kv" /\ fixture.lines[j].kind = "kv"
          /\ fixture.lines[i].name = fixture.lines[j].name)
      => \A n \in DOMAIN ret.counters :
            ret.counters[n] = ValueOf(fixture.lines, n)

\* a fatal table with TLP 7, then TLP 0, then PoisonTLPBlocked 7 has been
\* parsed: TLP is 0 and PoisonTLPBlocked is 7
C17_Witness ==
    /\ ParsedWrittenTable /\ ret.err = NoErr
    /\ call.op = "parseUncorrectableAerCounters" /\ call.counterType = "fatal"
    /\ fixture.lines = <<KV("TLP", 7), KV("TLP", 0), KV("PoisonTLPBlocked", 7)>>
    /\ ret.counters.TLP = 0 /\ ret.counters.PoisonTLPBlocked = 7

\* ---- device scan: parent resolution and identity values

\* the field of a device record that an identity file fills
AttrOfIdentity(d, f) ==
    CASE f = "class" -> d.Class
      [] f = "vendor" -> d.Vendor
      [] f = "device" -> d.Device
      [] f = "subsystem_vendor" -> d.SubsystemVendor
      [] f = "subsystem_device" -> d.SubsystemDevice
      [] f = "revision" -> d.Revision

\* what the link of an entry gives the device as parent: none under the host
\* bridge "pci0000:00", 0000:00:01.0 under the bridge of that name
ExpectedParent(e) ==
    IF e = Healthy("bridge") THEN PtrTo(PciDeviceLocation(0, 0, 1, 0)) ELSE NilPtr

\* C18: parent resolution in the scan: a device's location is that of the
\* last segment of its link target; a device right under the host bridge
\* segment "pci0000:00" has no parent, and the scan succeeds though that
\* segment is no location; a device under another segment has that segment's
\* location as parent; a second-to-last segment that is malformed ("zz", or
\* the sign-prefixed "0000:00:01.-1") fails the scan.
C18_ParentResolution ==
    ScanReturned =>
       /\ (\E i \in DOMAIN fixture.entries :
              fixture.entries[i] \in {LinkFault("parent"), LinkFault("signedparent")})
            => ret.err # NoErr
       /\ ret.err = NoErr =>
            \A i \in DOMAIN fixture.entries :
               fixture.entries[i].kind # "link" =>
                  Bind(ret.val[1][String(ScanLocations[i])], LAMBDA d :
                    /\ d.Location = ScanLocations[i]
                    /\ d.ParentLocation = ExpectedParent(fixture.entries[i]))

\* the part of C18 that the code keeps: the same, but a sign-prefixed parent
\* segment is taken as the location it spells, with a negative function
ParentResolutionUpToSign ==
    ScanReturned =>
       /\ (\E i \in DOMAIN fixture.entries : fixture.entries[i] = LinkFault("parent"))
            => ret.err # NoErr
       /\ ret.err = NoErr =>
            \A i \in DOMAIN fixture.entries :
               Bind(ret.val[1][String(ScanLocations[i])], LAMBDA d :
                 /\ d.Location = ScanLocations[i]
                 /\ d.ParentLocation =
                      IF fixture.entries[i] = LinkFault("signedparent")
                      THEN PtrTo(PciDeviceLocation(0, 0, 1, 0 - 1))
                      ELSE ExpectedParent(fixture.entries[i]))

\* the unsigned 32-bit value an identity file of the entry holds, when the
\* entry was populated with one of the wide values
WideValue ==
    [hexmax31 |-> [hi |-> 32767, lo |-> 65535],
     hexmin32 |-> [hi |-> 32768, lo |-> 0],
     decmax32 |-> [hi |-> 65535, lo |-> 65535]]

\* C19: identity fields are decoded without loss: an identity file that
\* holds 0x7fffffff, 0x80000000 or 4294967295 does not fail the scan and the
\* field holds that value; and no field holds a value other than the one its
\* file spells (a file holding -1 is not stored as 4294967295).
C19_IdentityLossless ==
    ScanReturned =>
       /\ (\A i \in DOMAIN fixture.entries :
              \/ ~EntryFails(fixture.entries[i])
              \/ /\ fixture.entries[i].kind = "file"
                 /\ fixture.entries[i].as \in DOMAIN WideValue)
            => ret.err = NoErr
       /\ ret.err = NoErr =>
            \A i \in DOMAIN fixture.entries :
               Bind(fixture.entries[i], LAMBDA e :
                 (e.kind = "file" /\ e.file \in FileNames(IdentityFiles)) =>
                    /\ e.as \in DOMAIN WideValue
                    /\ AttrOfIdentity(ret.val[1][String(ScanLocations[i])], e.file)
                         = WideValue[e.as])

\* the part of C19 that the code keeps: values below 2^31 are stored as they
\* are spelled
IdentityLosslessBelow31Bits ==
    (ScanReturned /\ ret.err = NoErr) =>
        \A i \in DOMAIN fixture.entries :
           Bind(fixture.entries[i], LAMBDA e :
             (e.kind = "file" /\ e.file \in FileNames(IdentityFiles)
                /\ e.as = "hexmax31") =>
                AttrOfIdentity(ret.val[1][String(ScanLocations[i])], e.file)
                  = WideValue.hexmax31)

\* ---- the root-port aggregation followed read by read, on a tree that changes

\* the file names of parseRootPortAerCounters (pcieport), in its order
RootPortFilenames ==
    <<"aer_rootport_total_err_cor", "aer_rootport_total_err_nonfatal",
      "aer_rootport_total_err_fatal">>

\* a nil AllRootPortAerCounters map; a map that is not nil is PtrTo(the map)
NilAllRootPort == NilPtr

\* the locals of fs.RootPortAerCounters() on entry
NewRootPortCall ==
    [op |-> "RootPortAerCounters", pc |-> "ReadDir", devices |-> <<>>, k |-> 0,
     rootportcounter |-> ZeroRootPort, allRootPortAerCounters |-> <<>>,
     done |-> FALSE, err |-> NoErr, val |-> NilAllRootPort]

\* the next step of fs.RootPortAerCounters(): the enumeration, the existence
\* check of the next device's presence file, or the read of one total file
RootPortRead(fs, fr) ==
    CASE fr.pc = "ReadDir" ->
           [fr EXCEPT !.pc = "stat", !.devices = RootPortDevices(fs).val]
      [] fr.pc = "stat" ->
           IF fr.devices = <<>>
           THEN Return(fr, NoErr, PtrTo(fr.allRootPortAerCounters))
           ELSE IF osIsNotExist(StatFile(Lookup(PcieportDeviceDir(fs, fr.devices[1]),
                                                "aer_rootport_total_err_cor")))
           THEN [fr EXCEPT !.devices = Tail(@)]
           ELSE [fr EXCEPT !.pc = "file", !.k = 1, !.rootportcounter = ZeroRootPort]
      [] fr.pc = "file" ->
           Bind(RootPortFiles(PcieportDeviceDir(fs, fr.devices[1]),
                              <<RootPortFilenames[fr.k]>>, fr.rootportcounter),
                LAMBDA counters :
             IF counters.err # NoErr THEN Return(fr, counters.err, NilAllRootPort)
             ELSE IF fr.k < Len(RootPortFilenames)
             THEN [fr EXCEPT !.k = @ + 1, !.rootportcounter = counters.val[1]]
             ELSE [fr EXCEPT !.pc = "stat", !.k = 0, !.devices = Tail(@),
                             !.rootportcounter = ZeroRootPort,
                             !.allRootPortAerCounters =
                                (fr.devices[1] :> counters.val[1]) @@ @])

MaxPortRewrites == 2

\* what the two bound devices of the driver directory start as: the totals
\* of the test fixture, a blank total, no presence file
BoundChoices(name) ==
    { [kind |-> "device", cor |-> Scalar("num", PortValue(name, 1)),
       fatal |-> Scalar("num", PortValue(name, 2)),
       nonfatal |-> Scalar("num", PortValue(name, 3))],
      [kind |-> "device", cor |-> Scalar("num", PortValue(name, 1)),
       fatal |-> Scalar("blank", 0),
       nonfatal |-> Scalar("num", PortValue(name, 3))],
      [kind |-> "device", cor |-> Scalar("missing", 0),
       fatal |-> Scalar("num", PortValue(name, 2)),
       nonfatal |-> Scalar("missing", 0)] }

\* the driver directory with these entries
PortTree(entries) ==
    [EmptySysfs EXCEPT !.pcieport = [n \in DOMAIN entries |-> PortEntry(entries[n])]]

\* the driver directory is populated with two bound devices and the regular
\* file bind
MountBoundPorts ==
    /\ fstep = "boot"
    /\ \E e1 \in BoundChoices(PortNames[1]), e2 \in BoundChoices(PortNames[2]) :
         LET entries == (PortNames[1] :> e1) @@ (PortNames[2] :> e2)
                          @@ (PortNames[3] :> PortRegular)
         IN /\ fixture' = [ports |-> entries, rewrites |-> 0]
            /\ sysfs' = PortTree(entries)
    /\ fstep' = "mounted"
    /\ UNCHANGED <<call, ret, frames>>
    /\ UNCHANGED codecVars

\* a caller enters fs.RootPortAerCounters(); ret logs what each existence
\* check and each read finds
EnterRootPortAerCounters ==
    /\ fstep = "mounted"
    /\ DOMAIN fixture = {"ports", "rewrites"}
    /\ frames' = <<NewRootPortCall>>
    /\ call' = [op |-> "RootPortAerCounters"]
    /\ ret' = <<>>
    /\ fstep' = "running"
    /\ UNCHANGED <<sysfs, fixture>>
    /\ UNCHANGED codecVars

\* the part of an entry that populates the named total file
TotalOf(e, filename) ==
    CASE filename = "aer_rootport_total_err_cor" -> e.cor
      [] filename = "aer_rootport_total_err_fatal" -> e.fatal
      [] filename = "aer_rootport_total_err_nonfatal" -> e.nonfatal

\* the caller makes its next step
RootPortAerCountersRead ==
    /\ fstep = "running" /\ call.op = "RootPortAerCounters"
    /\ ~frames[1].done
    /\ frames' = <<RootPortRead(sysfs, frames[1])>>
    /\ ret' = IF frames[1].pc = "ReadDir" \/ frames[1].devices = <<>> THEN ret
              ELSE Bind(IF frames[1].pc = "stat" THEN "aer_rootport_total_err_cor"
                        ELSE RootPortFilenames[frames[1].k],
                        LAMBDA filename :
                     Append(ret, [what |-> frames[1].pc,
                                  device |-> frames[1].devices[1],
                                  filename |-> filename,
                                  found |-> TotalOf(fixture.ports[frames[1].devices[1]],
                                                    filename)]))
    /\ UNCHANGED <<sysfs, fixture, call, fstep>>
    /\ UNCHANGED codecVars

\* a total file of a bound device is removed or replaced while the call is
\* under way
RewriteTotal ==
    /\ fstep = "running" /\ call.op = "RootPortAerCounters"
    /\ fixture.rewrites < MaxPortRewrites
    /\ \E n \in {PortNames[1], PortNames[2]}, part \in {"cor", "fatal", "nonfatal"},
          d \in { Scalar("missing", 0), Scalar("eio", 0), Scalar("junk", 0),
                  Scalar("blank", 0), Scalar("num", 9) } :
         /\ fixture.ports[n][part] # d
         /\ fixture' = [ports |-> [fixture.ports EXCEPT ![n][part] = d],
                        rewrites |-> fixture.rewrites + 1]
         /\ sysfs' = PortTree([fixture.ports EXCEPT ![n][part] = d])
    /\ UNCHANGED <<call, ret, fstep, frames>>
    /\ UNCHANGED codecVars

PortRaceNext ==
    MountBoundPorts \/ EnterRootPortAerCounters \/ RootPortAerCountersRead \/ RewriteTotal

SpecPortRace == TreeInit /\ [][PortRaceNext]_vars

\* ---- the root-port aggregation on a changing tree: properties

\* the devices whose presence file was there at the existence check
CheckedPresent ==
    { ret[i].device : i \in { j \in 1..Len(ret) :
                                ret[j].what = "stat" /\ ret[j].found.kind # "missing" } }

\* the reads of the log that found no total: the file missing, unreadable or
\* holding no decimal number
FailedReads ==
    { i \in 1..Len(ret) : ret[i].what = "file" /\ ret[i].found.kind \notin {"blank", "num"} }

\* C21: root-port aggregate entries are complete or the call fails, also on
\* a tree that changes during the call: once a read of a total file of a
\* device whose presence file existed at the check finds the file missing
\* (the presence file itself included), unreadable or unparsable, the call
\* has failed and returns no map; and a call that succeeds returns exactly
\* the devices whose presence file existed at the check, each with the
\* values that the one read of each of its three files found, 0 for a blank.
C21_CompleteOrFails ==
    (fstep = "running" /\ call.op = "RootPortAerCounters") =>
        Bind(frames[1], LAMBDA fr :
          /\ FailedReads # {} =>
               (fr.done /\ fr.err # NoErr /\ fr.val = NilAllRootPort)
          /\ \A i \in FailedReads : ret[i].device \in CheckedPresent
          /\ (fr.done /\ fr.err = NoErr) =>
               /\ FailedReads = {}
               /\ fr.val # NilAllRootPort
               /\ DOMAIN fr.val[1] = CheckedPresent
               /\ \A n \in CheckedPresent :
                    \A filename \in {"aer_rootport_total_err_cor",
                                     "aer_rootport_total_err_fatal",
                                     "aer_rootport_total_err_nonfatal"} :
                       /\ Cardinality({ i \in 1..Len(ret) :
                                          /\ ret[i].what = "file" /\ ret[i].device = n
                                          /\ ret[i].filename = filename }) = 1
                       /\ \A i \in 1..Len(ret) :
                            (ret[i].what = "file" /\ ret[i].device = n
                               /\ ret[i].filename = filename) =>
                               ExpectedTotal(ret[i].found) =
                                 CASE filename = "aer_rootport_total_err_cor" ->
                                        fr.val[1][n].TotalErrCor
                                   [] filename = "aer_rootport_total_err_fatal" ->
                                        fr.val[1][n].TotalErrFatal
                                   [] filename = "aer_rootport_total_err_nonfatal" ->
                                        fr.val[1][n].TotalErrNonFatal)

\* the first device was read whole; the presence file of the second existed
\* at the check and was gone at the read: the call has failed with no map
C21_Witness ==
    /\ fstep = "running" /\ call.op = "RootPortAerCounters"
    /\ Len(ret) = 6
    /\ \A i \in 1..4 : ret[i].device = PortNames[1] /\ ret[i].found.kind = "num"
    /\ ret[5] = [what |-> "stat", device |-> PortNames[2],
                 filename |-> "aer_rootport_total_err_cor",
                 found |-> Scalar("num", 4)]
    /\ ret[6] = [what |-> "file", device |-> PortNames[2],
                 filename |-> "aer_rootport_total_err_cor",
                 found |-> Scalar("missing", 0)]
    /\ frames[1].done /\ frames[1].err # NoErr
    /\ errorsIs(frames[1].err, "ENOENT")
    /\ frames[1].val = NilAllRootPort

\* ---- device scan: the shape of the registry

\* a collection in which one entry after the first is a symlink whose target
\* ends in the first entry's name, the others being populated in the common
\* ways
MountTwinnedDevices ==
    /\ fstep = "boot"
    /\ \E n \in 2..MaxScanEntries, k \in 2..MaxScanEntries :
         /\ k <= n
         /\ \E others \in [(1..n) \ {k} -> CommonChoices] :
              LET entries == [i \in 1..n |-> IF i = k THEN LinkFault("twin")
                                             ELSE others[i]]
              IN /\ fixture' = [entries |-> entries]
                 /\ sysfs' = ScanTree(entries)
    /\ fstep' = "mounted"
    /\ UNCHANGED <<call, ret, frames>>
    /\ UNCHANGED codecVars

RegistryNext == MountPciDevices \/ MountTwinnedDevices \/ CallPciDevices

SpecRegistry == TreeInit /\ [][RegistryNext]_vars

\* C22: registry shape after a successful scan: every key is the formatted
\* location of the record stored under it, and the registry holds one record
\* per entry of the collection: as many records as entries.
C22_RegistryShape ==
    (ScanReturned /\ ret.err = NoErr) =>
        /\ \A k \in DOMAIN ret.val[1] :
             Bind(ret.val[1][k], LAMBDA d : k = String(d.Location))
        /\ Cardinality(DOMAIN ret.val[1]) = Cardinality(DOMAIN sysfs.pci)

\* the part of C22 that the code keeps: the keys are the formatted locations
\* of their records, and there are as many records as entries whenever the
\* link targets of the entries end in different locations
RegistryShapeDistinctTargets ==
    (ScanReturned /\ ret.err = NoErr) =>
        /\ \A k \in DOMAIN ret.val[1] : k = String(ret.val[1][k].Location)
        /\ (\A a, b \in DOMAIN sysfs.pci :
               a # b => parsePciDeviceLocation(Base(sysfs.pci[a].link.target)).val
                          # parsePciDeviceLocation(Base(sysfs.pci[b].link.target)).val)
             => Cardinality(DOMAIN ret.val[1]) = Cardinality(DOMAIN sysfs.pci)

====
